---- MODULE Spec2Model ----
(***************************************************************************)
(* jit-mcp: just-in-time hydration of MCP tools.                           *)
(*                                                                         *)
(* Strings that the program parses (tool URIs) are sequences of atoms, an  *)
(* atom being a substring that is never cut: "mcp+stdio:", "mcp:", "/" and *)
(* a few words.  The atoms are prefix-free, so a sequence of atoms denotes *)
(* exactly one string and str.startswith / str.split("/") are the sequence *)
(* operations below.  Strings the program only compares (tool names) are   *)
(* TLA+ strings.                                                           *)
(***************************************************************************)
EXTENDS Naturals, Sequences, FiniteSets

VARIABLES
    uri_in,         \* SpecResolve: the URI handed to _map_uri_to_params
    resolved,       \* SpecResolve: what _map_uri_to_params returned or raised
    registry,       \* MCPRegistry collection: tool name -> metadata uri
    active_tools,   \* JITToolProvider._active_tools, in dict order
    hydrated_uris,  \* JITToolProvider._hydrated_uris
    last,           \* the last call on the provider: arguments, outcome, I/O
    prior,          \* the call before it, kept for two calls in a row
    tasks,          \* SpecAsync: the coroutines suspended at an await
    loop,           \* SpecLoop: the run of JITAgentLoop.run
    search_service, \* SpecSearch: SearchService.mode and its last call
    context_manager,\* SpecContext: DynamicContextManager
    orchestrator,   \* SpecOrch: the last JITOrchestrator.query
    collection      \* SpecRegistry: the chroma collection of MCPRegistry

vars == <<uri_in, resolved, registry, active_tools, hydrated_uris, last,
          prior, tasks, loop, search_service, context_manager, orchestrator,
          collection>>

\* The variables of the other specifications, which a specification that
\* does not use them leaves empty.
Unused(v) == v = <<>>

(***************************************************************************)
(* Capability resolver: JITToolProvider._map_uri_to_params                 *)
(***************************************************************************)
SLASH == "/"

STDIO_PREFIX == <<"mcp+stdio:", SLASH, SLASH>>

MCP_PREFIX == <<"mcp:", SLASH, SLASH>>

\* One-atom strings.
Str(w) == <<w>>

ALLOWED_COMMANDS ==
    { Str("npx"), Str("node"), Str("python"), Str("python3"), Str("uvx"),
      Str("uv"), Str("echo"), Str("docker"), Str("deno"), Str("bun") }

\* str.startswith
StartsWith(s, p) == Len(s) >= Len(p) /\ SubSeq(s, 1, Len(p)) = p

\* s[n:]
Drop(s, n) == SubSeq(s, n + 1, Len(s))

\* The index of the first "/" of s, 0 when there is none.
RECURSIVE FirstSlash(_, _)
FirstSlash(s, i) ==
    IF i > Len(s) THEN 0
    ELSE IF s[i] = SLASH THEN i
    ELSE FirstSlash(s, i + 1)

\* path.split("/"): never empty, "" splits to [""].
RECURSIVE Split(_)
Split(path) ==
    LET i == FirstSlash(path, 1)
    IN  IF i = 0 THEN <<path>>
        ELSE <<SubSeq(path, 1, i - 1)>> \o Split(Drop(path, i))

\* "/".join(parts)
RECURSIVE JoinPath(_)
JoinPath(parts) ==
    IF parts = <<>> THEN <<>>
    ELSE IF Len(parts) = 1 THEN parts[1]
    ELSE parts[1] \o <<SLASH>> \o JoinPath(Tail(parts))

\* The prefix stripping of _map_uri_to_params: the first matching branch only.
StripPrefix(uri) ==
    IF StartsWith(uri, STDIO_PREFIX) THEN Drop(uri, Len(STDIO_PREFIX))
    ELSE IF StartsWith(uri, MCP_PREFIX) THEN Drop(uri, Len(MCP_PREFIX))
    ELSE uri

\* StdioServerParameters(command, args)
StdioServerParameters(command, args) ==
    [error |-> "none", command |-> command, args |-> args]

\* raise ValueError("Command '<command>' is not in the allowed commands list")
DisallowedCommand(command) ==
    [error |-> "DisallowedCommand", command |-> command, args |-> <<>>]

\* Faulty variant: the allowlist check is dropped.
MapNoAllowlist(uri) ==
    LET parts == Split(StripPrefix(uri))
    IN  StdioServerParameters(parts[1], Tail(parts))

\* Faulty variant: only the stdio-specific prefix is stripped.
MapOnePrefix(uri) ==
    LET path == IF StartsWith(uri, STDIO_PREFIX)
                THEN Drop(uri, Len(STDIO_PREFIX)) ELSE uri
        parts == Split(path)
    IN  IF parts[1] \notin ALLOWED_COMMANDS
        THEN DisallowedCommand(parts[1])
        ELSE StdioServerParameters(parts[1], Tail(parts))

_map_uri_to_params(uri) ==
    LET path    == StripPrefix(uri)
        parts   == Split(path)
        command == IF parts # <<>> THEN parts[1] ELSE Str("echo")
        args    == IF Len(parts) > 1 THEN Tail(parts) ELSE <<>>
    IN  IF command \notin ALLOWED_COMMANDS
        THEN DisallowedCommand(command)
        ELSE StdioServerParameters(command, args)

(***************************************************************************)
(* SpecResolve: _map_uri_to_params applied to every URI made of a form     *)
(* (one of the two scheme prefixes, or none) and up to MaxSegs segments.   *)
(***************************************************************************)
MaxSegs == 4

\* The segments URIs are built from: no segment holds a "/".
Segments ==
    { <<>>, Str("echo"), Str("npx"), Str("rm"), Str("-rf"),
      Str("mcp:"), Str("mcp+stdio:") }

SegLists == UNION { [1..n -> Segments] : n \in 1..MaxSegs }

Forms == {"stdio", "generic", "bare"}

FormPrefix(form) ==
    IF form = "stdio" THEN STDIO_PREFIX
    ELSE IF form = "generic" THEN MCP_PREFIX
    ELSE <<>>

\* The URI string of an input.
UriOf(in) == FormPrefix(in.form) \o JoinPath(in.segs)

Pending == [error |-> "pending", command |-> <<>>, args |-> <<>>]

InitResolve ==
    /\ uri_in \in [form : Forms, segs : SegLists]
    /\ resolved = Pending
    /\ registry = <<>>
    /\ active_tools = <<>>
    /\ hydrated_uris = {}
    /\ last = <<>>
    /\ prior = <<>>
    /\ tasks = <<>>
    /\ loop = <<>>
    /\ Unused(search_service) /\ Unused(context_manager)
    /\ Unused(orchestrator) /\ Unused(collection)

Resolve ==
    /\ resolved = Pending
    /\ resolved' = _map_uri_to_params(UriOf(uri_in))
    /\ UNCHANGED <<uri_in, registry, active_tools, hydrated_uris, last,
                   prior, tasks, loop,
                   search_service, context_manager, orchestrator,
                   collection>>

NextResolve == Resolve

SpecResolve == InitResolve /\ [][NextResolve]_vars

\* The prefix stripping leaves in.segs as the path: always for a prefixed
\* form, and for the bare form when the string starts with no prefix.
PathIsSegs(in) ==
    in.form = "bare" =>
        /\ ~StartsWith(JoinPath(in.segs), STDIO_PREFIX)
        /\ ~StartsWith(JoinPath(in.segs), MCP_PREFIX)

\* C1: a URI whose first path segment, after the prefix is stripped, is not
\* in the allowlist is rejected with DisallowedCommand and yields no
\* descriptor, whatever the remaining segments are.
C1_DisallowedRejected ==
    (resolved # Pending /\ PathIsSegs(uri_in)
        /\ uri_in.segs[1] \notin ALLOWED_COMMANDS)
    => /\ resolved.error = "DisallowedCommand"
       /\ resolved.command = uri_in.segs[1]
       /\ resolved.args = <<>>

\* A rejected URI whose later segments name allowed commands.
C1_Witness ==
    /\ resolved.error = "DisallowedCommand"
    /\ uri_in.form = "stdio"
    /\ uri_in.segs[1] = Str("rm")
    /\ Len(uri_in.segs) = MaxSegs
    /\ uri_in.segs[2] = Str("echo")

\* C2: for an allowlisted command c and segments s1..sn, the stdio form, the
\* generic form and the bare path all resolve to command c, args <<s1..sn>>.
C2_AllowedResolved ==
    (resolved # Pending /\ uri_in.segs[1] \in ALLOWED_COMMANDS)
    => resolved = [error |-> "none", command |-> uri_in.segs[1],
                   args |-> Tail(uri_in.segs)]

\* The generic form resolved with three arguments, one of them empty.
C2_Witness ==
    /\ resolved.error = "none"
    /\ uri_in.form = "generic"
    /\ Len(resolved.args) = 3
    /\ resolved.args[2] = <<>>
    /\ resolved.args[1] # resolved.args[3]

\* The URI yields no command token: the path left by the prefix stripping
\* is empty or starts with "/".
NoCommandToken(in) == PathIsSegs(in) /\ in.segs[1] = <<>>

\* C26: a URI that yields no command token (the empty string, a bare scheme
\* prefix, a remainder starting with "/") is rejected with MalformedURI, an
\* error other than DisallowedCommand, and never resolves to a default
\* command.
C26_NoCommandIsMalformed ==
    (resolved # Pending /\ NoCommandToken(uri_in))
    => /\ resolved.error = "MalformedURI"
       /\ resolved.error # "DisallowedCommand"
       /\ resolved.error # "none"

(***************************************************************************)
(* The world around the provider: registry contents, search, transport.    *)
(***************************************************************************)
\* Tool names of the registry.
Names == {"t1", "t2"}

\* A name no server offers and nobody registered.
UNKNOWN_TOOL == "unknown_tool"

\* Origins tools are registered with.  URI_A and URI_A2 name the same
\* command line in two spellings, URI_BAD a command outside the allowlist,
\* URI_NONE is the empty uri.
URI_A == STDIO_PREFIX \o JoinPath(<<Str("echo"), Str("srv1")>>)

URI_A2 == JoinPath(<<Str("echo"), Str("srv1")>>)

URI_B == MCP_PREFIX \o JoinPath(<<Str("npx"), Str("srv2")>>)

URI_BAD == STDIO_PREFIX \o JoinPath(<<Str("rm"), Str("-rf")>>)

URI_NONE == <<>>

Uris == {URI_A, URI_A2, URI_B, URI_BAD, URI_NONE}

\* A tool schema as MCPClient.get_tool_schemas builds it.
Schema(name, description) == [name |-> name, description |-> description]

\* What MCPClient.get_tool_schemas returns when the server answers: the
\* server's whole tool list, in the server's order.
get_tool_schemas(server_params) ==
    IF server_params.command = Str("echo")
       /\ server_params.args = <<Str("srv1")>>
    THEN <<Schema("t1", "srv1"), Schema("t2", "srv1")>>
    ELSE IF server_params.command = Str("npx")
            /\ server_params.args = <<Str("srv2")>>
    THEN <<Schema("t2", "srv2")>>
    ELSE <<>>

\* MCPRegistry.get_tool_uri: the uri of the entry, None without an entry.
get_tool_uri(reg, tool_name) ==
    IF tool_name \in DOMAIN reg
    THEN [found |-> TRUE, uri |-> reg[tool_name]]
    ELSE [found |-> FALSE, uri |-> <<>>]

\* MCPRegistry.add_tool: collection.upsert keyed by the tool's name.
add_tool(reg, name, uri) ==
    [n \in DOMAIN reg \cup {name} |-> IF n = name THEN uri ELSE reg[n]]

\* All sequences without repetition of n elements of S.
RECURSIVE Rankings(_, _)
Rankings(S, n) ==
    IF n = 0 \/ S = {} THEN {<<>>}
    ELSE UNION { { <<x>> \o r : r \in Rankings(S \ {x}, n - 1) } : x \in S }

\* The largest limit (n_results) a caller asks for.
MaxResults == 2

\* The description and the category a tool is registered with
\* (ToolMetadata.description, ToolMetadata.category): one per name.
DescriptionOf(name) == IF name = "t1" THEN "Get stock prices" ELSE "Read files"

CategoryOf(name) == IF name = "t1" THEN "Financial" ELSE "Filesystem"

\* MCPRegistry._format_results: one candidate per entry found, with its id,
\* its metadata (uri, category) and its document (the description).
Candidate(reg, name) ==
    [id |-> name, uri |-> reg[name], document |-> DescriptionOf(name),
     category |-> CategoryOf(name)]

\* MCPRegistry.search_semantic: the n_results nearest entries of the
\* collection (all of them when it holds fewer), in an order the query
\* decides.
search_semantic(reg, n_results) ==
    LET k == IF Cardinality(DOMAIN reg) < n_results
             THEN Cardinality(DOMAIN reg) ELSE n_results
    IN  { [i \in 1..k |-> Candidate(reg, r[i])]
            : r \in Rankings(DOMAIN reg, k) }

(***************************************************************************)
(* Hydration cache: JITToolProvider                                        *)
(***************************************************************************)
\* _active_tools is a dict: a sequence of entries with distinct names, in
\* insertion order.
Entry(schema, server_params) ==
    [name |-> schema.name, schema |-> schema, server_params |-> server_params]

RECURSIVE IndexOf(_, _, _)
IndexOf(active, name, i) ==
    IF i > Len(active) THEN 0
    ELSE IF active[i].name = name THEN i
    ELSE IndexOf(active, name, i + 1)

\* tool_name in self._active_tools
is_hydrated(active, tool_name) == IndexOf(active, tool_name, 1) # 0

\* self._active_tools[name] = (schema, server_params)
DictPut(active, schema, server_params) ==
    LET i == IndexOf(active, schema.name, 1)
    IN  IF i = 0 THEN Append(active, Entry(schema, server_params))
        ELSE [active EXCEPT ![i] = Entry(schema, server_params)]

\* list(self._active_tools.keys())
get_active_tool_names(active) == [i \in 1..Len(active) |-> active[i].name]

\* [schema for schema, _ in self._active_tools.values()]
get_active_tools(active) == [i \in 1..Len(active) |-> active[i].schema]

Range(s) == { s[i] : i \in 1..Len(s) }

\* One transport call, as the provider issued it.  cached tells whether the
\* origin was in _hydrated_uris when the call was issued; tool, arguments
\* and answer are those of an execute_tool call.
TransportCall(kind, server_params, uri, cached, ok) ==
    [kind |-> kind, server_params |-> server_params, uri |-> uri,
     cached |-> cached, ok |-> ok, tool |-> "", arguments |-> "",
     answer |-> ""]

\* await self.mcp_client.execute_tool(server_params, tool_name, arguments);
\* answer is what the transport returns, "fail" when it raises.
ExecuteToolCall(server_params, tool_name, arguments, answer) ==
    [TransportCall("execute_tool", server_params, <<>>, FALSE,
                   answer # "fail")
     EXCEPT !.tool = tool_name, !.arguments = arguments, !.answer = answer]

\* The record of one call on the provider.
\*   result  what the call returned, as a sequence (None is <<>>)
\*   error   the exception it raised, "none" when it returned
\*   about   the tool name the NotHydrated (KeyError) message gives
\*   names   the active names the NotHydrated (KeyError) message lists
\*   calls   the transport calls it issued, in order
\*   trace   discover_and_hydrate: what happened to each candidate, in order
\*   before  clear_tools: the names that were active when it was called
Call(op, name, arguments, candidates, r) ==
    [op |-> op, name |-> name, arguments |-> arguments,
     candidates |-> candidates, result |-> r.result, error |-> r.error,
     about |-> r.about, names |-> r.names, calls |-> r.calls,
     trace |-> r.trace, before |-> r.before]

Outcome(active, hydrated, result, error, calls) ==
    [active |-> active, hydrated |-> hydrated, result |-> result,
     error |-> error, about |-> "", names |-> <<>>, calls |-> calls,
     trace |-> <<>>, before |-> <<>>]

\* for schema in schemas: self._active_tools[schema["name"]] = (schema, params)
RECURSIVE RegisterAll(_, _, _)
RegisterAll(active, schemas, server_params) ==
    IF schemas = <<>> THEN active
    ELSE RegisterAll(DictPut(active, Head(schemas), server_params),
                     Tail(schemas), server_params)

\* for ...: if schema not in hydrated_schemas: hydrated_schemas.append(schema)
RECURSIVE AppendMissing(_, _)
AppendMissing(result, schemas) ==
    IF schemas = <<>> THEN result
    ELSE AppendMissing(IF Head(schemas) \in Range(result) THEN result
                       ELSE Append(result, Head(schemas)),
                       Tail(schemas))

\* await self.mcp_client.get_tool_schemas(server_params), as issued for the
\* origin uri; ok is whether the transport answers it.
IssueFetch(hydrated, uri, ok) ==
    TransportCall("get_tool_schemas", _map_uri_to_params(uri), uri,
                  uri \in hydrated, ok)

\* Faulty variant: the origin is fetched whether it is recorded or not.
NeedsFetchNoCache(hydrated, uri) ==
    uri # <<>> /\ _map_uri_to_params(uri).error = "none"

\* discover_and_hydrate, lines 82-95: the candidate reaches the fetch of
\* line 96: it has an origin, not yet recorded, that the resolver accepts.
NeedsFetch(hydrated, uri) ==
    /\ uri # <<>>
    /\ uri \notin hydrated
    /\ _map_uri_to_params(uri).error = "none"

\* discover_and_hydrate, lines 82-92 and 106-108: a candidate that does not
\* reach the fetch.
SkipCandidate(st, candidate) ==
    IF candidate.uri = <<>>
    THEN [st EXCEPT !.trace = Append(@, "no_uri")]
    ELSE IF candidate.uri \in st.hydrated
    THEN [st EXCEPT
            !.result = AppendMissing(@, get_active_tools(st.active)),
            !.trace = Append(@, "cache_hit")]
    ELSE [st EXCEPT !.trace = Append(@, "rejected")]

\* Faulty variant: the origin is recorded whether the fetch is answered or
\* not.
CandidateFetchedRecording(st, fetch) ==
    LET schemas == get_tool_schemas(fetch.server_params)
    IN  IF ~fetch.ok
        THEN [st EXCEPT !.hydrated = @ \cup {fetch.uri},
                        !.calls = Append(@, fetch),
                        !.trace = Append(@, "fetch_failed")]
        ELSE [st EXCEPT
                !.active = RegisterAll(@, schemas, fetch.server_params),
                !.result = @ \o schemas,
                !.hydrated = @ \cup {fetch.uri},
                !.calls = Append(@, fetch),
                !.trace = Append(@, "hydrated")]

\* discover_and_hydrate, lines 96-108: the fetch has been answered.
CandidateFetched(st, fetch) ==
    LET schemas == get_tool_schemas(fetch.server_params)
    IN  IF ~fetch.ok
        THEN [st EXCEPT !.calls = Append(@, fetch),
                        !.trace = Append(@, "fetch_failed")]
        ELSE [st EXCEPT
                !.active = RegisterAll(@, schemas, fetch.server_params),
                !.result = @ \o schemas,
                !.hydrated = @ \cup {fetch.uri},
                !.calls = Append(@, fetch),
                !.trace = Append(@, "hydrated")]

\* One turn of the loop of discover_and_hydrate, lines 79-108.  ok is
\* whether the transport answers the fetch, if one is issued.
HydrateCandidate(st, candidate, ok) ==
    IF NeedsFetch(st.hydrated, candidate.uri)
    THEN CandidateFetched(st, IssueFetch(st.hydrated, candidate.uri, ok))
    ELSE SkipCandidate(st, candidate)

\* What the trace says of a candidate that was skipped.
Skipped == {"no_uri", "rejected", "fetch_failed"}

\* Faulty variant: the first skipped candidate ends the loop (break, not continue).
RECURSIVE HydrateLoopBreak(_, _, _, _)
HydrateLoopBreak(st, candidates, oks, i) ==
    IF i > Len(candidates) THEN st
    ELSE LET nx == HydrateCandidate(st, candidates[i], oks[i])
         IN  IF nx.trace[Len(nx.trace)] \in Skipped THEN nx
             ELSE HydrateLoopBreak(nx, candidates, oks, i + 1)

RECURSIVE HydrateLoop(_, _, _, _)
HydrateLoop(st, candidates, oks, i) ==
    IF i > Len(candidates) THEN st
    ELSE HydrateLoop(HydrateCandidate(st, candidates[i], oks[i]),
                     candidates, oks, i + 1)

\* The preview discover builds of one candidate.
Preview(c) ==
    [name |-> c.id, description |-> c.document, category |-> c.category,
     uri |-> c.uri]

\* Faulty variant: the previewed origins are recorded as hydrated.
DiscoverRecording(active, hydrated, candidates) ==
    Outcome(active,
            hydrated \cup { candidates[i].uri : i \in 1..Len(candidates) },
            [i \in 1..Len(candidates) |-> Preview(candidates[i])],
            "none", <<>>)

\* JITToolProvider.discover on the candidates the search returned.
discover(active, hydrated, candidates) ==
    Outcome(active, hydrated,
            [i \in 1..Len(candidates) |-> Preview(candidates[i])],
            "none", <<>>)

\* Faulty variant: a search without candidates is reported as an error.
DiscoverAndHydrateRaising(active, hydrated, candidates, oks) ==
    IF candidates = <<>>
    THEN Outcome(active, hydrated, <<>>, "NoCandidates", <<>>)
    ELSE HydrateLoop(Outcome(active, hydrated, <<>>, "none", <<>>),
                     candidates, oks, 1)

\* JITToolProvider.discover_and_hydrate on the candidates the search
\* returned; oks[i] is the transport's answer to a fetch for candidate i.
discover_and_hydrate(active, hydrated, candidates, oks) ==
    IF candidates = <<>>
    THEN Outcome(active, hydrated, <<>>, "none", <<>>)
    ELSE HydrateLoop(Outcome(active, hydrated, <<>>, "none", <<>>),
                     candidates, oks, 1)

\* The loop of hydrate_by_name, lines 127-130: the index of the schema
\* whose name is tool_name, 0 when the loop runs to its end.
RECURSIVE FindSchema(_, _, _)
FindSchema(schemas, tool_name, i) ==
    IF i > Len(schemas) THEN 0
    ELSE IF schemas[i].name = tool_name THEN i
    ELSE FindSchema(schemas, tool_name, i + 1)

\* hydrate_by_name, lines 117-124: the name reaches the fetch of line 125:
\* it is registered with an origin that the resolver accepts.
NameNeedsFetch(reg, tool_name) ==
    /\ get_tool_uri(reg, tool_name).found
    /\ get_tool_uri(reg, tool_name).uri # <<>>
    /\ _map_uri_to_params(get_tool_uri(reg, tool_name).uri).error = "none"

\* Faulty variant: the first fetched schema is returned, whatever its name.
NameFetchedFirst(active, hydrated, tool_name, fetch) ==
    LET schemas == get_tool_schemas(fetch.server_params)
    IN  IF ~fetch.ok \/ schemas = <<>>
        THEN Outcome(active, hydrated, <<>>, "none", <<fetch>>)
        ELSE Outcome(RegisterAll(active, schemas, fetch.server_params),
                     hydrated, <<schemas[1]>>, "none", <<fetch>>)

\* hydrate_by_name, lines 125-137: the fetch has been answered.
NameFetched(active, hydrated, tool_name, fetch) ==
    LET schemas == get_tool_schemas(fetch.server_params)
        k == FindSchema(schemas, tool_name, 1)
    IN  IF ~fetch.ok
        THEN Outcome(active, hydrated, <<>>, "none", <<fetch>>)
        ELSE IF k # 0
        THEN \* return schema: leaves the loop and the function at once
             Outcome(RegisterAll(active, SubSeq(schemas, 1, k),
                                 fetch.server_params),
                     hydrated, <<schemas[k]>>, "none", <<fetch>>)
        ELSE Outcome(RegisterAll(active, schemas, fetch.server_params),
                     hydrated \cup {fetch.uri}, <<>>, "none", <<fetch>>)

\* JITToolProvider.hydrate_by_name; ok is the transport's answer.
hydrate_by_name(reg, active, hydrated, tool_name, ok) ==
    IF NameNeedsFetch(reg, tool_name)
    THEN NameFetched(active, hydrated, tool_name,
                     IssueFetch(hydrated, get_tool_uri(reg, tool_name).uri, ok))
    ELSE Outcome(active, hydrated, <<>>, "none", <<>>)

\* Faulty variant: the gate is missing, any name goes to the transport.
ExecuteUngated(active, hydrated, tool_name, arguments, answer) ==
    Outcome(active, hydrated, <<answer>>, "none",
            <<ExecuteToolCall(StdioServerParameters(Str("echo"), <<>>),
                              tool_name, arguments, answer)>>)

\* Faulty variant: a failing invocation is tried a second time.
ExecuteRetry(active, hydrated, tool_name, arguments, answer) ==
    LET i == IndexOf(active, tool_name, 1)
        invoke == ExecuteToolCall(active[i].server_params, tool_name,
                                  arguments, answer)
    IN  IF ~is_hydrated(active, tool_name)
        THEN [Outcome(active, hydrated, <<>>, "NotHydrated", <<>>)
              EXCEPT !.about = tool_name,
                     !.names = get_active_tool_names(active)]
        ELSE IF answer = "fail"
        THEN Outcome(active, hydrated, <<>>, "TransportFailure",
                     <<invoke, invoke>>)
        ELSE Outcome(active, hydrated, <<answer>>, "none", <<invoke>>)

\* JITToolProvider.execute; answer is what the transport returns, "fail"
\* when it raises.
execute(active, hydrated, tool_name, arguments, answer) ==
    LET i == IndexOf(active, tool_name, 1)
        invoke == ExecuteToolCall(active[i].server_params, tool_name,
                                  arguments, answer)
    IN  IF ~is_hydrated(active, tool_name)
        THEN [Outcome(active, hydrated, <<>>, "NotHydrated", <<>>)
              EXCEPT !.about = tool_name,
                     !.names = get_active_tool_names(active)]
        ELSE IF answer = "fail"
        THEN Outcome(active, hydrated, <<>>, "TransportFailure", <<invoke>>)
        ELSE Outcome(active, hydrated, <<answer>>, "none", <<invoke>>)

\* Faulty variant: only the origins are forgotten.
ClearOriginsOnly(active, hydrated) ==
    [Outcome(active, {}, <<>>, "none", <<>>)
     EXCEPT !.before = get_active_tool_names(active)]

\* JITToolProvider.clear_tools
clear_tools(active, hydrated) ==
    [Outcome(<<>>, {}, <<>>, "none", <<>>)
     EXCEPT !.before = get_active_tool_names(active)]

(***************************************************************************)
(* Spec: one caller at a time on one provider; every call runs to its end  *)
(* before the next one starts.                                             *)
(***************************************************************************)
\* Arguments a caller passes to execute, and what the transport answers.
Arguments == {"a1", "a2"}

Answers == {"fail", "r1", "r2"}

NoCall == Call("none", "", "", <<>>, Outcome(<<>>, {}, <<>>, "none", <<>>))

\* prior keeps the previous call when the claims speak of two calls in a
\* row: discover_and_hydrate twice, discover_and_hydrate after a discover
\* without candidates, and execute right after clear_tools.
Prior(op) ==
    IF \/ op = "discover_and_hydrate" /\ last.op = "discover_and_hydrate"
       \/ op = "discover_and_hydrate" /\ last.op = "discover"
                                      /\ last.candidates = <<>>
       \/ op = "execute" /\ last.op = "clear_tools"
    THEN last
    ELSE NoCall

Init ==
    /\ uri_in = [form |-> "bare", segs |-> <<Str("echo")>>]
    /\ resolved = Pending
    /\ registry = [n \in {} |-> <<>>]
    /\ active_tools = <<>>
    /\ hydrated_uris = {}
    /\ last = NoCall
    /\ prior = NoCall
    /\ tasks = <<>>
    /\ loop = <<>>
    /\ Unused(search_service) /\ Unused(context_manager)
    /\ Unused(orchestrator) /\ Unused(collection)

\* provider.add_tool(ToolMetadata(name, uri)): register or re-register.
AddTool ==
    \E name \in Names, uri \in Uris :
        /\ registry' = add_tool(registry, name, uri)
        /\ last' = [NoCall EXCEPT !.op = "add_tool", !.name = name]
        /\ prior' = Prior("add_tool")
        /\ UNCHANGED <<uri_in, resolved, active_tools, hydrated_uris, tasks,
                       loop,
                       search_service, context_manager, orchestrator,
                       collection>>

\* provider.discover(query, n_results)
Discover ==
    \E n_results \in 1..MaxResults :
      \E candidates \in search_semantic(registry, n_results) :
        LET r == discover(active_tools, hydrated_uris, candidates)
        IN  /\ active_tools' = r.active
            /\ hydrated_uris' = r.hydrated
            /\ last' = Call("discover", "", "", candidates, r)
            /\ prior' = Prior("discover")
            /\ UNCHANGED <<uri_in, resolved, registry, tasks, loop,
                           search_service, context_manager, orchestrator,
                           collection>>

\* provider.discover_and_hydrate(query, n_results)
DiscoverAndHydrate ==
    \E n_results \in 1..MaxResults :
      \E candidates \in search_semantic(registry, n_results) :
        \E oks \in [1..Len(candidates) -> BOOLEAN] :
          LET r == discover_and_hydrate(active_tools, hydrated_uris,
                                        candidates, oks)
          IN  /\ active_tools' = r.active
              /\ hydrated_uris' = r.hydrated
              /\ last' = Call("discover_and_hydrate", "", "", candidates, r)
              /\ prior' = Prior("discover_and_hydrate")
              /\ UNCHANGED <<uri_in, resolved, registry, tasks, loop,
                             search_service, context_manager, orchestrator,
                             collection>>

\* provider.hydrate_by_name(tool_name)
HydrateByName ==
    \E tool_name \in Names \cup {UNKNOWN_TOOL}, ok \in BOOLEAN :
        LET r == hydrate_by_name(registry, active_tools, hydrated_uris,
                                 tool_name, ok)
        IN  /\ active_tools' = r.active
            /\ hydrated_uris' = r.hydrated
            /\ last' = Call("hydrate_by_name", tool_name, "", <<>>, r)
            /\ prior' = Prior("hydrate_by_name")
            /\ UNCHANGED <<uri_in, resolved, registry, tasks, loop,
                           search_service, context_manager, orchestrator,
                           collection>>

\* provider.execute(tool_name, arguments)
Execute ==
    \E tool_name \in Names \cup {UNKNOWN_TOOL}, arguments \in Arguments,
       answer \in Answers :
        LET r == execute(active_tools, hydrated_uris, tool_name, arguments,
                         answer)
        IN  /\ active_tools' = r.active
            /\ hydrated_uris' = r.hydrated
            /\ last' = Call("execute", tool_name, arguments, <<>>, r)
            /\ prior' = Prior("execute")
            /\ UNCHANGED <<uri_in, resolved, registry, tasks, loop,
                           search_service, context_manager, orchestrator,
                           collection>>

\* provider.clear_tools()
ClearTools ==
    LET r == clear_tools(active_tools, hydrated_uris)
    IN  /\ active_tools' = r.active
        /\ hydrated_uris' = r.hydrated
        /\ last' = Call("clear_tools", "", "", <<>>, r)
        /\ prior' = Prior("clear_tools")
        /\ UNCHANGED <<uri_in, resolved, registry, tasks, loop,
                       search_service, context_manager, orchestrator,
                       collection>>

Next ==
    \/ AddTool
    \/ Discover
    \/ DiscoverAndHydrate
    \/ HydrateByName
    \/ Execute
    \/ ClearTools

Spec == Init /\ [][Next]_vars

(***************************************************************************)
(* Claims on the hydration cache, one caller at a time.                    *)
(***************************************************************************)
Fetches(calls) == { c \in Range(calls) : c.kind = "get_tool_schemas" }

\* The calls of a sequence that fetch the origin uri, in order.
RECURSIVE FetchesOf(_, _)
FetchesOf(calls, uri) ==
    IF calls = <<>> THEN <<>>
    ELSE IF Head(calls).kind = "get_tool_schemas" /\ Head(calls).uri = uri
    THEN <<Head(calls)>> \o FetchesOf(Tail(calls), uri)
    ELSE FetchesOf(Tail(calls), uri)

\* The place of the first candidate registered with the origin uri, or 0.
RECURSIVE FirstWithOrigin(_, _, _)
FirstWithOrigin(candidates, uri, i) ==
    IF i > Len(candidates) THEN 0
    ELSE IF candidates[i].uri = uri THEN i
    ELSE FirstWithOrigin(candidates, uri, i + 1)

\* The active entry of every name was resolved from a recorded origin.
OriginsRecorded ==
    \A i \in 1..Len(active_tools) :
        \E u \in hydrated_uris :
            _map_uri_to_params(u) = active_tools[i].server_params

\* C3: execute of a name that is not in active fails with NotHydrated, the
\* error carrying the name and the list of hydrated names; no transport
\* call is issued and the cache is left as it was.
C3_ExecuteGated ==
    [][ (last'.op = "execute" /\ ~is_hydrated(active_tools, last'.name))
        => /\ last'.error = "NotHydrated"
           /\ last'.about = last'.name
           /\ last'.names = get_active_tool_names(active_tools)
           /\ last'.calls = <<>>
           /\ last'.result = <<>>
           /\ active_tools' = active_tools
           /\ hydrated_uris' = hydrated_uris ]_vars

\* execute of a registered but not hydrated name, another one being active.
C3_Witness ==
    /\ last.op = "execute"
    /\ last.error = "NotHydrated"
    /\ last.name \in DOMAIN registry
    /\ last.names # <<>>

\* C4: every name in active has its origin in hydrated_origins.
C4_ActiveImpliesOriginHydrated == OriginsRecorded

\* C5: no schema fetch is issued for an origin that is in hydrated_origins
\* when the fetch is issued.
C5_NoFetchOfHydratedOrigin ==
    \A c \in Fetches(last.calls) : ~c.cached

\* Two discover_and_hydrate calls in a row, both with a candidate of the
\* resolvable origin u, which was not hydrated when the first one met it.
TwoCallsOnOrigin(u) ==
    /\ last.op = "discover_and_hydrate"
    /\ prior.op = "discover_and_hydrate"
    /\ _map_uri_to_params(u).error = "none"
    /\ FirstWithOrigin(last.candidates, u, 1) # 0
    /\ FirstWithOrigin(prior.candidates, u, 1) # 0
    /\ prior.trace[FirstWithOrigin(prior.candidates, u, 1)] # "cache_hit"

\* The second call fetched nothing from u and returned what is cached for u.
ServedFromCache(u) ==
    /\ FetchesOf(last.calls, u) = <<>>
    /\ \A i \in 1..Len(active_tools) :
          active_tools[i].server_params = _map_uri_to_params(u)
              => active_tools[i].schema \in Range(last.result)

\* C6 as stated: two discover_and_hydrate calls in a row on the same origin
\* fetch it exactly once in total, and the second serves it from the cache.
C6_ExactlyOneFetch ==
    \A u \in Uris \ {URI_NONE} :
        TwoCallsOnOrigin(u)
        => /\ Len(FetchesOf(prior.calls, u)) + Len(FetchesOf(last.calls, u)) = 1
           /\ ServedFromCache(u)

\* C6, amended: the same, when the first call's fetch of the origin is
\* answered by the transport.
C6_OneFetchWhenAnswered ==
    \A u \in Uris \ {URI_NONE} :
        (/\ TwoCallsOnOrigin(u)
         /\ prior.trace[FirstWithOrigin(prior.candidates, u, 1)] = "hydrated")
        => /\ Len(FetchesOf(prior.calls, u)) + Len(FetchesOf(last.calls, u)) = 1
           /\ ServedFromCache(u)

\* The second call met the origin the first one fetched, and fetched nothing.
C6_Witness ==
    /\ TwoCallsOnOrigin(URI_A)
    /\ prior.trace[FirstWithOrigin(prior.candidates, URI_A, 1)] = "hydrated"
    /\ last.trace[FirstWithOrigin(last.candidates, URI_A, 1)] = "cache_hit"
    /\ last.calls = <<>>
    /\ Len(last.result) = 2

\* C7: every transport call carries a descriptor whose command is in the
\* allowlist, and so does every entry of active, whatever the registry was
\* made to hold between two resolutions.
C7_OnlyAllowedCommands ==
    /\ \A c \in Range(last.calls) :
          /\ c.server_params.error = "none"
          /\ c.server_params.command \in ALLOWED_COMMANDS
    /\ \A i \in 1..Len(active_tools) :
          /\ active_tools[i].server_params.error = "none"
          /\ active_tools[i].server_params.command \in ALLOWED_COMMANDS

\* A hydrated tool was re-registered with a disallowed origin, and the next
\* discover_and_hydrate rejected that candidate and fetched another one.
C7_Witness ==
    /\ last.op = "discover_and_hydrate"
    /\ \E i \in 1..Len(last.trace) :
          /\ last.trace[i] = "rejected"
          /\ is_hydrated(active_tools, last.candidates[i].id)
    /\ Fetches(last.calls) # {}

\* C8: after clear_tools active and hydrated_origins are empty, no name
\* that was hydrated is hydrated, and an execute that follows fails with
\* NotHydrated without reaching the transport.
C8_ClearEmptiesBoth ==
    /\ last.op = "clear_tools"
       => /\ active_tools = <<>>
          /\ hydrated_uris = {}
          /\ \A n \in Range(last.before) : ~is_hydrated(active_tools, n)
    /\ (last.op = "execute" /\ prior.op = "clear_tools")
       => /\ last.error = "NotHydrated"
          /\ last.calls = <<>>

\* execute, right after clear_tools, of a name that was hydrated before it.
C8_Witness ==
    /\ last.op = "execute"
    /\ prior.op = "clear_tools"
    /\ last.name \in Range(prior.before)
    /\ last.error = "NotHydrated"

\* C10: discover_and_hydrate skips a candidate with no origin, with a
\* rejected origin or with a failing fetch, does not raise, and goes on:
\* every candidate is dealt with, and what a later fetch returns is
\* registered in active, recorded in hydrated_origins and returned.
C10_FailureIsolated ==
    last.op = "discover_and_hydrate"
    => /\ last.error = "none"
       /\ Len(last.trace) = Len(last.candidates)
       /\ \A i \in 1..Len(last.candidates) :
             /\ last.candidates[i].uri = <<>> <=> last.trace[i] = "no_uri"
             /\ last.trace[i] = "rejected"
                  => _map_uri_to_params(last.candidates[i].uri).error # "none"
             /\ last.trace[i] \in {"hydrated", "fetch_failed"}
                  => FetchesOf(last.calls, last.candidates[i].uri) # <<>>
       /\ \A c \in Fetches(last.calls) :
             c.ok => /\ c.uri \in hydrated_uris
                     /\ \A k \in 1..Len(get_tool_schemas(c.server_params)) :
                          LET sch == get_tool_schemas(c.server_params)[k]
                          IN  /\ sch \in Range(last.result)
                              /\ is_hydrated(active_tools, sch.name)

\* A rejected candidate followed by one that was fetched and hydrated.
C10_Witness ==
    /\ last.op = "discover_and_hydrate"
    /\ Len(last.trace) = 2
    /\ last.trace[1] = "rejected"
    /\ last.trace[2] = "hydrated"
    /\ Len(last.result) = 2

\* The schemas the origin uri offers: what a fetch of it returns and what
\* the cache holds for it.
SchemasOf(uri) == Range(get_tool_schemas(_map_uri_to_params(uri)))

\* C11: on a cache hit discover_and_hydrate appends the cached schemas of
\* the candidate's origin and no schema cached from another origin: every
\* schema it returns is one that the origin of a hydrated or cache-hit
\* candidate offers.
C11_CacheHitOnlyOwnOrigin ==
    last.op = "discover_and_hydrate"
    => \A s \in Range(last.result) :
          \E i \in 1..Len(last.candidates) :
              /\ last.trace[i] \in {"cache_hit", "hydrated"}
              /\ s \in SchemasOf(last.candidates[i].uri)

\* C12: after a hydrate_by_name whose fetch was answered, every schema the
\* fetch returned, the requested one and its siblings, is registered in
\* active under its own name with the fetched descriptor.
C12_SiblingsRegistered ==
    last.op = "hydrate_by_name"
    => \A c \in Fetches(last.calls) :
          c.ok => \A s \in Range(get_tool_schemas(c.server_params)) :
                     \E i \in 1..Len(active_tools) :
                         /\ active_tools[i].name = s.name
                         /\ active_tools[i].schema = s
                         /\ active_tools[i].server_params = c.server_params

\* What hydrate_by_name(tool_name) is to return when the fetch of the
\* name's origin is answered (ok) or not: the fetched schema of that name,
\* None (the empty sequence) when there is none.
ExpectedSchema(reg, tool_name, ok) ==
    LET u == get_tool_uri(reg, tool_name)
        fetched == IF u.found /\ _map_uri_to_params(u.uri).error = "none" /\ ok
                   THEN SchemasOf(u.uri) ELSE {}
    IN  IF \E s \in fetched : s.name = tool_name
        THEN <<CHOOSE s \in fetched : s.name = tool_name>>
        ELSE <<>>

\* C13: hydrate_by_name returns the schema of that name when the set
\* fetched from the registered origin holds it and None otherwise (name not
\* registered, origin rejected, fetch failed, name not in the fetched
\* set); it never raises; for a name that is not registered it issues no
\* transport call and leaves the cache as it was.
C13_HydrateByNameResult ==
    [][ last'.op = "hydrate_by_name"
        => /\ last'.error = "none"
           /\ Len(last'.calls) <= 1
           /\ last'.result =
                ExpectedSchema(registry, last'.name,
                               last'.calls # <<>> /\ last'.calls[1].ok)
           /\ (get_tool_uri(registry, last'.name).found
               /\ _map_uri_to_params(
                      get_tool_uri(registry, last'.name).uri).error = "none"
               /\ get_tool_uri(registry, last'.name).uri # <<>>)
              => Len(last'.calls) = 1
           /\ ~get_tool_uri(registry, last'.name).found
              => /\ last'.calls = <<>>
                 /\ active_tools' = active_tools
                 /\ hydrated_uris' = hydrated_uris ]_vars

\* hydrate_by_name of a registered name whose origin answered with a set
\* that does not hold it: None is returned, the fetched sibling is active.
C13_Witness ==
    /\ last.op = "hydrate_by_name"
    /\ last.name = "t1"
    /\ Len(last.calls) = 1
    /\ last.calls[1].ok
    /\ last.result = <<>>
    /\ is_hydrated(active_tools, "t2")

\* C14: discover is a pure preview: it issues no transport call, leaves
\* active and hydrated_origins as they were, does not raise, and returns
\* one preview (name, description, category, origin) per candidate, in the
\* candidates' order.
C14_DiscoverPurePreview ==
    [][ last'.op = "discover"
        => /\ last'.calls = <<>>
           /\ last'.error = "none"
           /\ active_tools' = active_tools
           /\ hydrated_uris' = hydrated_uris
           /\ Len(last'.result) = Len(last'.candidates)
           /\ \A i \in 1..Len(last'.candidates) :
                 last'.result[i] =
                     [name |-> last'.candidates[i].id,
                      description |-> DescriptionOf(last'.candidates[i].id),
                      category |-> CategoryOf(last'.candidates[i].id),
                      uri |-> registry[last'.candidates[i].id]] ]_vars

\* discover with a hydrated cache: two previews, t2 ranked first, of origins
\* of which one is not hydrated.
C14_Witness ==
    /\ last.op = "discover"
    /\ Len(last.result) = 2
    /\ last.result[1].name = "t2"
    /\ active_tools # <<>>
    /\ \E i \in 1..2 : last.result[i].uri \notin hydrated_uris

\* C15: when the search returns no candidate, discover and
\* discover_and_hydrate return the empty list and do not raise, and
\* discover_and_hydrate issues no transport call and leaves active and
\* hydrated_origins as they were.
C15_NoCandidateEmptyList ==
    [][ (last'.op \in {"discover", "discover_and_hydrate"}
         /\ last'.candidates = <<>>)
        => /\ last'.result = <<>>
           /\ last'.error = "none"
           /\ last'.calls = <<>>
           /\ active_tools' = active_tools
           /\ hydrated_uris' = hydrated_uris ]_vars

\* discover_and_hydrate on a search without candidates, after a discover
\* that had none either.
C15_Witness ==
    /\ last.op = "discover_and_hydrate"
    /\ last.candidates = <<>>
    /\ last.result = <<>>
    /\ last.error = "none"
    /\ prior.op = "discover"
    /\ prior.result = <<>>

\* The names of the schemas a hydration returned.
ReturnedNames(call) ==
    IF call.op \in {"discover_and_hydrate", "hydrate_by_name"}
    THEN { call.result[i].name : i \in 1..Len(call.result) }
    ELSE {}

\* C16: a name that a hydration returned is in active, and stays there
\* until clear_tools; execute of a name in active issues exactly one
\* transport call, an invocation of that name with the descriptor cached
\* for it and the arguments given, returns what the transport answered
\* (raises when the transport raised), and leaves active and
\* hydrated_origins as they were.
C16_ExecuteAfterHydration ==
    [][ /\ \A n \in ReturnedNames(last') : is_hydrated(active_tools', n)
        /\ \A n \in Names :
              (is_hydrated(active_tools, n) /\ last'.op # "clear_tools")
              => is_hydrated(active_tools', n)
        /\ (last'.op = "execute" /\ is_hydrated(active_tools, last'.name))
           => /\ Len(last'.calls) = 1
              /\ last'.calls[1].kind = "execute_tool"
              /\ last'.calls[1].tool = last'.name
              /\ last'.calls[1].arguments = last'.arguments
              /\ last'.calls[1].server_params =
                   active_tools[IndexOf(active_tools, last'.name, 1)]
                       .server_params
              /\ IF last'.calls[1].ok
                 THEN /\ last'.error = "none"
                      /\ last'.result = <<last'.calls[1].answer>>
                 ELSE /\ last'.error = "TransportFailure"
                      /\ last'.result = <<>>
              /\ active_tools' = active_tools
              /\ hydrated_uris' = hydrated_uris ]_vars

\* execute of t2, hydrated from srv2 while the registry names another
\* origin for it: the transport was invoked with the cached descriptor and
\* its answer was returned.
C16_Witness ==
    /\ last.op = "execute"
    /\ last.name = "t2"
    /\ last.error = "none"
    /\ last.result = <<"r2">>
    /\ last.arguments = "a2"
    /\ Len(last.calls) = 1
    /\ last.calls[1].server_params = _map_uri_to_params(URI_B)
    /\ "t2" \in DOMAIN registry
    /\ _map_uri_to_params(registry["t2"]) # _map_uri_to_params(URI_B)

\* The fetches of a call that the transport answered.
Answered(calls) == { c \in Fetches(calls) : c.ok }

\* A hydration call met the origin u, and resolution rejected it or every
\* fetch of it failed.
FailedOn(call, u) ==
    /\ call.op = "discover_and_hydrate"
    /\ \E i \in 1..Len(call.candidates) :
          /\ call.candidates[i].uri = u
          /\ call.trace[i] \in {"rejected", "fetch_failed"}
    /\ \A c \in Answered(call.calls) : c.uri # u

\* C30: an origin enters hydrated_origins only in a hydration that resolved
\* it and whose fetch of it was answered, and an entry enters or changes in
\* active only from an answered fetch; a hydration none of whose fetches
\* is answered leaves active and hydrated_origins as they were; and after a
\* discover_and_hydrate that was rejected or failed on an origin, the next
\* discover_and_hydrate does not take the origin for a cache hit: it
\* resolves it again and, when it resolves, fetches it again.
C30_RecordedOnlyOnSuccess ==
    /\ [][ /\ \A u \in hydrated_uris' \ hydrated_uris :
                /\ last'.op \in {"discover_and_hydrate", "hydrate_by_name"}
                /\ _map_uri_to_params(u).error = "none"
                /\ \E c \in Answered(last'.calls) : c.uri = u
           /\ \A i \in 1..Len(active_tools') :
                active_tools'[i] \notin Range(active_tools)
                => \E c \in Answered(last'.calls) :
                      /\ c.server_params = active_tools'[i].server_params
                      /\ active_tools'[i].schema
                            \in Range(get_tool_schemas(c.server_params))
           /\ (/\ last'.op \in {"discover_and_hydrate", "hydrate_by_name"}
               /\ Answered(last'.calls) = {})
              => /\ active_tools' = active_tools
                 /\ hydrated_uris' = hydrated_uris ]_vars
    /\ [](\A u \in Uris \ {URI_NONE} :
            (/\ FailedOn(prior, u)
             /\ last.op = "discover_and_hydrate"
             /\ FirstWithOrigin(last.candidates, u, 1) # 0)
            => LET i == FirstWithOrigin(last.candidates, u, 1)
               IN  /\ last.trace[i] # "cache_hit"
                   /\ _map_uri_to_params(u).error = "none"
                      => FetchesOf(last.calls, u) # <<>>)

\* The fetch of srv1 failed in a discover_and_hydrate that left the cache
\* empty, and the discover_and_hydrate that followed fetched srv1 again,
\* was answered, and recorded the origin.
C30_Witness ==
    /\ FailedOn(prior, URI_A)
    /\ prior.result = <<>>
    /\ last.op = "discover_and_hydrate"
    /\ last.trace[FirstWithOrigin(last.candidates, URI_A, 1)] = "hydrated"
    /\ Len(FetchesOf(last.calls, URI_A)) = 1
    /\ hydrated_uris = {URI_A}
    /\ Len(active_tools) = 2

\* No element of the sequence occurs twice in it.
NoDuplicates(seq) ==
    \A i, j \in 1..Len(seq) : seq[i] = seq[j] => i = j

\* C31: the list discover_and_hydrate returns holds no schema twice, and
\* every schema in it is the schema active holds when the call returns.
C31_ResultDistinctAndActive ==
    last.op = "discover_and_hydrate"
    => /\ NoDuplicates(last.result)
       /\ \A k \in 1..Len(last.result) :
             \E i \in 1..Len(active_tools) :
                 active_tools[i].schema = last.result[k]

(***************************************************************************)
(* SpecAsync: several coroutines on one provider.  The event loop runs one *)
(* coroutine at a time and switches only at an await, so a step is the     *)
(* code between two awaits.  A hydration is suspended at                   *)
(* await get_tool_schemas(...); clear_tools has no await.                  *)
(***************************************************************************)
NumTasks == 2

TaskIds == 1..NumTasks

\* A coroutine that is not inside a call.  cleared tells whether
\* clear_tools ran while its last call was suspended.
IdleTask(cleared) ==
    [op |-> "idle", name |-> "", candidates |-> <<>>, i |-> 0,
     fetch |-> <<>>, result |-> <<>>, cleared |-> cleared]

\* The registry the coroutines find: both names registered.
AsyncRegistries == [Names -> Uris \ {URI_NONE}]

\* discover_and_hydrate from candidate i on, up to the next await: the loop
\* skips candidates until one reaches the fetch.
RECURSIVE RunToFetch(_, _, _)
RunToFetch(st, candidates, i) ==
    IF i > Len(candidates) \/ NeedsFetch(st.hydrated, candidates[i].uri)
    THEN [i |-> i, st |-> st]
    ELSE RunToFetch(SkipCandidate(st, candidates[i]), candidates, i + 1)

\* The coroutine of discover_and_hydrate after RunToFetch: suspended at the
\* fetch for candidate r.i, or returned.
HydratingTask(candidates, r, cleared) ==
    IF r.i > Len(candidates) THEN IdleTask(cleared)
    ELSE [op |-> "discover_and_hydrate", name |-> "",
          candidates |-> candidates, i |-> r.i,
          fetch |-> IssueFetch(r.st.hydrated, candidates[r.i].uri, TRUE),
          result |-> r.st.result, cleared |-> cleared]

InitAsync ==
    /\ uri_in = [form |-> "bare", segs |-> <<Str("echo")>>]
    /\ resolved = Pending
    /\ registry \in AsyncRegistries
    /\ active_tools = <<>>
    /\ hydrated_uris = {}
    /\ last = NoCall
    /\ prior = NoCall
    /\ tasks = [t \in TaskIds |-> IdleTask(FALSE)]
    /\ loop = <<>>
    /\ Unused(search_service) /\ Unused(context_manager)
    /\ Unused(orchestrator) /\ Unused(collection)

\* A coroutine calls discover_and_hydrate and runs to its first fetch.
StartDiscoverAndHydrate ==
    \E t \in TaskIds, n_results \in 1..MaxResults :
      \E candidates \in search_semantic(registry, n_results) :
        LET r == RunToFetch(Outcome(active_tools, hydrated_uris, <<>>,
                                    "none", <<>>), candidates, 1)
        IN  /\ tasks[t].op = "idle"
            /\ tasks' = [tasks EXCEPT ![t] = HydratingTask(candidates, r, FALSE)]
            /\ last' = NoCall
            /\ UNCHANGED <<uri_in, resolved, registry, active_tools,
                           hydrated_uris, prior, loop,
                           search_service, context_manager, orchestrator,
                           collection>>

\* The transport answers the fetch of a suspended discover_and_hydrate,
\* which runs on to its next fetch or to its return.
ResumeDiscoverAndHydrate ==
    \E t \in TaskIds, ok \in BOOLEAN :
        LET task == tasks[t]
            st == CandidateFetched(
                      Outcome(active_tools, hydrated_uris, task.result,
                              "none", <<>>),
                      [task.fetch EXCEPT !.ok = ok])
            r == RunToFetch(st, task.candidates, task.i + 1)
        IN  /\ task.op = "discover_and_hydrate"
            /\ active_tools' = r.st.active
            /\ hydrated_uris' = r.st.hydrated
            /\ tasks' = [tasks EXCEPT
                           ![t] = HydratingTask(task.candidates, r, task.cleared)]
            /\ last' = NoCall
            /\ UNCHANGED <<uri_in, resolved, registry, prior, loop,
                           search_service, context_manager, orchestrator,
                           collection>>

\* A coroutine calls hydrate_by_name and runs to its fetch, or returns None.
StartHydrateByName ==
    \E t \in TaskIds, tool_name \in Names \cup {UNKNOWN_TOOL} :
        /\ tasks[t].op = "idle"
        /\ tasks' = [tasks EXCEPT ![t] =
              IF NameNeedsFetch(registry, tool_name)
              THEN [op |-> "hydrate_by_name", name |-> tool_name,
                    candidates |-> <<>>, i |-> 0,
                    fetch |-> IssueFetch(hydrated_uris,
                                 get_tool_uri(registry, tool_name).uri, TRUE),
                    result |-> <<>>, cleared |-> FALSE]
              ELSE IdleTask(FALSE)]
        /\ last' = NoCall
        /\ UNCHANGED <<uri_in, resolved, registry, active_tools,
                       hydrated_uris, prior, loop,
                       search_service, context_manager, orchestrator,
                       collection>>

\* The transport answers the fetch of a suspended hydrate_by_name, which
\* runs to its return.
ResumeHydrateByName ==
    \E t \in TaskIds, ok \in BOOLEAN :
        LET task == tasks[t]
            r == NameFetched(active_tools, hydrated_uris, task.name,
                             [task.fetch EXCEPT !.ok = ok])
        IN  /\ task.op = "hydrate_by_name"
            /\ active_tools' = r.active
            /\ hydrated_uris' = r.hydrated
            /\ tasks' = [tasks EXCEPT ![t] = IdleTask(task.cleared)]
            /\ last' = NoCall
            /\ UNCHANGED <<uri_in, resolved, registry, prior, loop,
                           search_service, context_manager, orchestrator,
                           collection>>

\* clear_tools runs, whatever is suspended.
ClearToolsAsync ==
    LET r == clear_tools(active_tools, hydrated_uris)
    IN  /\ active_tools' = r.active
        /\ hydrated_uris' = r.hydrated
        /\ tasks' = [t \in TaskIds |->
                       IF tasks[t].op = "idle" THEN tasks[t]
                       ELSE [tasks[t] EXCEPT !.cleared = TRUE]]
        /\ last' = Call("clear_tools", "", "", <<>>, r)
        /\ UNCHANGED <<uri_in, resolved, registry, prior, loop,
                       search_service, context_manager, orchestrator,
                       collection>>

NextAsync ==
    \/ StartDiscoverAndHydrate
    \/ ResumeDiscoverAndHydrate
    \/ StartHydrateByName
    \/ ResumeHydrateByName
    \/ ClearToolsAsync

SpecAsync == InitAsync /\ [][NextAsync]_vars

\* C9: clear_tools is atomic with respect to a hydration suspended at its
\* fetch: it leaves both structures empty, and once it has run during a
\* hydration no name is in active without its origin in hydrated_origins.
C9_ClearAtomicWithInFlight ==
    /\ last.op = "clear_tools" => (active_tools = <<>> /\ hydrated_uris = {})
    /\ (\E t \in TaskIds : tasks[t].cleared) => OriginsRecorded

\* The coroutine is inside discover_and_hydrate, suspended at a fetch.
Fetching(t) == tasks[t].op = "discover_and_hydrate"

\* C25: two callers of discover_and_hydrate on one cache can both be
\* suspended at a fetch of the same origin, which is then fetched twice:
\* each passed the hydrated_origins check (its fetch was issued while the
\* origin was not recorded) before the other recorded the origin.
C25_ConcurrentDoubleFetch ==
    \A t \in TaskIds :
        Fetching(t)
        => /\ ~tasks[t].fetch.cached
           /\ tasks[t].fetch.kind = "get_tool_schemas"
           /\ tasks[t].fetch.uri = tasks[t].candidates[tasks[t].i].uri
           /\ tasks[t].fetch.server_params
                = _map_uri_to_params(tasks[t].fetch.uri)

\* Both coroutines are suspended at a fetch of the origin of srv1, which
\* is not recorded: the transport has been asked for it twice.
C25_Witness ==
    /\ Fetching(1) /\ Fetching(2)
    /\ tasks[1].fetch.uri = URI_A
    /\ tasks[2].fetch.uri = URI_A
    /\ ~tasks[1].fetch.cached /\ ~tasks[2].fetch.cached
    /\ URI_A \notin hydrated_uris

(***************************************************************************)
(* SpecLoop: JITAgentLoop.run on one provider.  A step is one turn of the  *)
(* loop: the model is consulted with the tools on offer and its response   *)
(* is served.  The model answers anything; the registry's query and the    *)
(* transport may fail.                                                     *)
(***************************************************************************)
\* The largest max_turns a run is started with.
MaxTurns == 3

DISCOVER_TOOLS == "discover_tools"

\* create_discover_tool_schema()
create_discover_tool_schema ==
    Schema(DISCOVER_TOOLS, "Search for and load MCP tools")

\* Faulty variant: only the base tools are on offer.
GetBaseTools(active) == <<create_discover_tool_schema>>

\* JITAgentLoop.get_current_tools: self._base_tools + get_active_tools()
get_current_tools(active) ==
    <<create_discover_tool_schema>> \o get_active_tools(active)

\* messages[0]: f"User: {user_input}"
UserMessage == [tool |-> "", kind |-> "user"]

\* f"Tool ({tool_name}): {result}", result being one of
\*   "discovered"  "Discovered and loaded N tools: ..."
\*   "no_tools"    "No tools found for: <query>"
\*   "result"      str(<what execute returned>)
\*   "error"       "Error executing <tool_name>: <e>"
\*   "unknown"     "Unknown tool: <tool_name>. Use discover_tools to find ..."
ToolMessage(tool_name, kind) == [tool |-> tool_name, kind |-> kind]

\* What the model may answer with when it answers with content.
Contents == {"", "answer"}

\* A JITAgentLoop on which run is not running.
IdleLoop ==
    [pc |-> "IDLE", turn |-> 0, max_turns |-> 0, messages |-> <<>>,
     prompt |-> <<>>, offered |-> <<>>, response |-> "", invoked |-> "",
     content |-> "", output |-> ""]

\* run(user_input, max_turns) up to the first await of llm_generate: with
\* max_turns = 0 the loop has no turn and run returns at once.  prompt is
\* the history lines current_prompt holds after the user input: none yet.
StartRun(max_turns) ==
    [pc |-> IF max_turns = 0 THEN "MAX_TURNS" ELSE "AWAIT_MODEL",
     turn |-> 0, max_turns |-> max_turns, messages |-> <<UserMessage>>,
     prompt |-> <<>>, offered |-> <<>>, response |-> "", invoked |-> "",
     content |-> "",
     output |-> IF max_turns = 0 THEN "Max turns reached" ELSE ""]

\* response = await self.llm_generate(current_prompt,
\* self.get_current_tools()): the model was consulted once more, with the
\* tools on offer, and answered with a response of that kind (done,
\* content, empty, or a tool_call of the name invoked).
Consulted(l, active, response, invoked) ==
    [l EXCEPT !.turn = @ + 1, !.offered = get_current_tools(active),
              !.response = response, !.invoked = invoked, !.content = ""]

\* response.content of the response the model gave.
Carrying(l, content) == [l EXCEPT !.content = content]

\* The end of one turn of the for loop: the next turn, or the loop is
\* exhausted and run returns "Max turns reached".
EndTurn(l) ==
    IF l.turn < l.max_turns THEN l
    ELSE [l EXCEPT !.pc = "MAX_TURNS", !.output = "Max turns reached"]

\* The number of history messages current_prompt is rebuilt from.
HistoryWindow == 5

\* messages[-n:]
LastN(messages, n) ==
    IF Len(messages) <= n THEN messages
    ELSE SubSeq(messages, Len(messages) - n + 1, Len(messages))

\* Faulty variant: the prompt is rebuilt from the whole history.
FedWholeHistory(l, tool_name, kind) ==
    LET messages == Append(l.messages, ToolMessage(tool_name, kind))
    IN  EndTurn([l EXCEPT !.messages = messages, !.prompt = messages])

\* messages.append(f"Tool ({tool_name}): {result}"), current_prompt is
\* rebuilt from messages[-5:], then the next turn.
Fed(l, tool_name, kind) ==
    LET messages == Append(l.messages, ToolMessage(tool_name, kind))
    IN  EndTurn([l EXCEPT !.messages = messages,
                          !.prompt = LastN(messages, HistoryWindow)])

\* return <output>
Returned(l, output) == [l EXCEPT !.pc = "DONE", !.output = output]

\* An exception leaves run.
Raised(l) == [l EXCEPT !.pc = "RAISED"]

\* The registries a loop is run on: the tools are registered before run.
LoopRegistries ==
    { [n \in {} |-> <<>>],
      [n \in Names |-> IF n = "t1" THEN URI_A ELSE URI_B],
      [n \in Names |-> IF n = "t1" THEN URI_BAD ELSE URI_A2] }

InitLoop ==
    /\ uri_in = [form |-> "bare", segs |-> <<Str("echo")>>]
    /\ resolved = Pending
    /\ registry \in LoopRegistries
    /\ active_tools = <<>>
    /\ hydrated_uris = {}
    /\ last = NoCall
    /\ prior = NoCall
    /\ tasks = <<>>
    /\ loop = IdleLoop
    /\ Unused(search_service) /\ Unused(context_manager)
    /\ Unused(orchestrator) /\ Unused(collection)

\* await agent.run(user_input, max_turns), when no run is under way.
Run ==
    \E max_turns \in 0..MaxTurns :
        /\ loop.pc # "AWAIT_MODEL"
        /\ loop' = StartRun(max_turns)
        /\ last' = NoCall
        /\ UNCHANGED <<uri_in, resolved, registry, active_tools,
                       hydrated_uris, prior, tasks,
                       search_service, context_manager, orchestrator,
                       collection>>

\* if response.is_done: return response.content or "Done", whether the
\* response carries a tool call or not.
ModelDone ==
    \E content \in Contents, invoked \in {"", DISCOVER_TOOLS} :
        /\ loop.pc = "AWAIT_MODEL"
        /\ loop' = Returned(Carrying(Consulted(loop, active_tools, "done",
                                                invoked),
                                      content),
                            IF content = "" THEN "Done" ELSE content)
        /\ last' = NoCall
        /\ UNCHANGED <<uri_in, resolved, registry, active_tools,
                       hydrated_uris, prior, tasks,
                       search_service, context_manager, orchestrator,
                       collection>>

\* elif response.content: return response.content
ModelContent ==
    \E content \in Contents \ {""} :
        /\ loop.pc = "AWAIT_MODEL"
        /\ loop' = Returned(Carrying(Consulted(loop, active_tools,
                                                "content", ""),
                                      content),
                            content)
        /\ last' = NoCall
        /\ UNCHANGED <<uri_in, resolved, registry, active_tools,
                       hydrated_uris, prior, tasks,
                       search_service, context_manager, orchestrator,
                       collection>>

\* A response with no tool call, no content and no completion flag: the
\* turn is spent and nothing is appended.
ModelEmpty ==
    /\ loop.pc = "AWAIT_MODEL"
    /\ loop' = EndTurn(Consulted(loop, active_tools, "empty", ""))
    /\ last' = NoCall
    /\ UNCHANGED <<uri_in, resolved, registry, active_tools, hydrated_uris,
                   prior, tasks,
                   search_service, context_manager, orchestrator,
                   collection>>

\* if tool_name == "discover_tools": the registry's query raises, which
\* nothing catches, or discover_and_hydrate runs on its candidates.
ModelDiscover ==
    /\ loop.pc = "AWAIT_MODEL"
    /\ \/ /\ loop' = Raised(Consulted(loop, active_tools, "tool_call",
                                       DISCOVER_TOOLS))
          /\ last' = Call("discover_and_hydrate", DISCOVER_TOOLS, "", <<>>,
                          Outcome(active_tools, hydrated_uris, <<>>,
                                  "SearchFailure", <<>>))
          /\ UNCHANGED <<active_tools, hydrated_uris,
                         search_service, context_manager, orchestrator,
                         collection>>
       \/ \E n_results \in 1..MaxResults :
            \E candidates \in search_semantic(registry, n_results) :
              \E oks \in [1..Len(candidates) -> BOOLEAN] :
                LET r == discover_and_hydrate(active_tools, hydrated_uris,
                                              candidates, oks)
                IN  /\ active_tools' = r.active
                    /\ hydrated_uris' = r.hydrated
                    /\ last' = Call("discover_and_hydrate", DISCOVER_TOOLS,
                                    "", candidates, r)
                    /\ loop' = Fed(Consulted(loop, active_tools, "tool_call",
                                             DISCOVER_TOOLS),
                                   DISCOVER_TOOLS,
                                   IF r.result # <<>> THEN "discovered"
                                   ELSE "no_tools")
    /\ UNCHANGED <<uri_in, resolved, registry, prior, tasks,
                   search_service, context_manager, orchestrator,
                   collection>>

\* elif self.provider.is_hydrated(tool_name): execute inside try/except.
ModelExecute ==
    \E tool_name \in Names \cup {UNKNOWN_TOOL}, arguments \in Arguments,
       answer \in Answers :
        LET r == execute(active_tools, hydrated_uris, tool_name, arguments,
                         answer)
        IN  /\ loop.pc = "AWAIT_MODEL"
            /\ is_hydrated(active_tools, tool_name)
            /\ active_tools' = r.active
            /\ hydrated_uris' = r.hydrated
            /\ last' = Call("execute", tool_name, arguments, <<>>, r)
            /\ loop' = Fed(Consulted(loop, active_tools, "tool_call",
                                     tool_name),
                           tool_name,
                           IF r.error = "none" THEN "result" ELSE "error")
            /\ UNCHANGED <<uri_in, resolved, registry, prior, tasks,
                           search_service, context_manager, orchestrator,
                           collection>>

\* Faulty variant: a name that is not hydrated is a hard failure.
ModelUnknownRaised ==
    \E tool_name \in Names \cup {UNKNOWN_TOOL} :
        /\ loop.pc = "AWAIT_MODEL"
        /\ ~is_hydrated(active_tools, tool_name)
        /\ loop' = Raised(Consulted(loop, active_tools, "tool_call",
                                    tool_name))
        /\ last' = NoCall
        /\ UNCHANGED <<uri_in, resolved, registry, active_tools,
                       hydrated_uris, prior, tasks,
                       search_service, context_manager, orchestrator,
                       collection>>

\* else: "Unknown tool: ... Use discover_tools to find available tools."
ModelUnknown ==
    \E tool_name \in Names \cup {UNKNOWN_TOOL} :
        /\ loop.pc = "AWAIT_MODEL"
        /\ ~is_hydrated(active_tools, tool_name)
        /\ loop' = Fed(Consulted(loop, active_tools, "tool_call",
                                 tool_name),
                       tool_name, "unknown")
        /\ last' = NoCall
        /\ UNCHANGED <<uri_in, resolved, registry, active_tools,
                       hydrated_uris, prior, tasks,
                       search_service, context_manager, orchestrator,
                       collection>>

NextLoop ==
    \/ Run
    \/ ModelDone
    \/ ModelContent
    \/ ModelEmpty
    \/ ModelDiscover
    \/ ModelExecute
    \/ ModelUnknown

SpecLoop == InitLoop /\ [][NextLoop]_vars

\* The event loop runs the coroutine of run, and the model, the registry
\* and the transport answer every await.
SpecLoopFair == SpecLoop /\ WF_vars(NextLoop)

\* The step is a turn of the loop: the model is consulted.
IsTurn == loop.pc = "AWAIT_MODEL" /\ loop'.turn = loop.turn + 1

\* C17: run terminates, in DONE or, after exactly max_turns consultations
\* of the model, with "Max turns reached"; the model is never consulted
\* more than max_turns times in a run.
C17_LoopTerminates ==
    /\ [](loop.turn <= loop.max_turns)
    /\ [](loop.pc = "MAX_TURNS"
            => /\ loop.turn = loop.max_turns
               /\ loop.output = "Max turns reached")
    /\ [](loop.pc \in {"IDLE", "AWAIT_MODEL", "DONE", "MAX_TURNS"})
    /\ (loop.pc = "AWAIT_MODEL" ~> loop.pc \in {"DONE", "MAX_TURNS"})

\* What the loop is in after a turn that does not return: AWAIT_MODEL for
\* the next turn, or the end of the run when that was the last turn.
AfterTurn(l) == IF l.turn < l.max_turns THEN "AWAIT_MODEL" ELSE "MAX_TURNS"

\* C18: when the model invokes a name that is neither discover_tools nor in
\* active, the turn makes no call on the provider or the transport, leaves
\* the cache as it was, appends the corrective "unknown tool, use
\* discover_tools" message to the history and goes back to AWAIT_MODEL for
\* the next turn, if the run has one.
C18_UnknownToolCorrected ==
    [][ (/\ IsTurn
         /\ loop'.response = "tool_call"
         /\ loop'.invoked # DISCOVER_TOOLS
         /\ ~is_hydrated(active_tools, loop'.invoked))
        => /\ last'.op = "none"
           /\ last'.calls = <<>>
           /\ active_tools' = active_tools
           /\ hydrated_uris' = hydrated_uris
           /\ loop'.messages =
                Append(loop.messages, ToolMessage(loop'.invoked, "unknown"))
           /\ loop'.pc = AfterTurn(loop') ]_vars

\* The model invoked t1 while only t2 was hydrated: the corrective message
\* is the last of the history and the loop awaits the model again.
C18_Witness ==
    /\ loop.pc = "AWAIT_MODEL"
    /\ loop.response = "tool_call"
    /\ loop.invoked = "t1"
    /\ get_active_tool_names(active_tools) = <<"t2">>
    /\ loop.messages[Len(loop.messages)] = ToolMessage("t1", "unknown")
    /\ Len(loop.messages) = 3

\* C19: a failure raised while a capability invocation of the model is
\* served (execute, or the search and the hydration of discover_tools)
\* does not leave run: a message about the invoked tool is appended to the
\* history and the loop goes on with the next turn.
C19_FailuresBecomeText ==
    [][ (IsTurn /\ loop'.response = "tool_call" /\ last'.error # "none")
        => /\ loop'.pc = AfterTurn(loop')
           /\ Len(loop'.messages) = Len(loop.messages) + 1
           /\ SubSeq(loop'.messages, 1, Len(loop.messages)) = loop.messages
           /\ loop'.messages[Len(loop'.messages)].tool = loop'.invoked ]_vars

\* C27: a turn ends the run in DONE exactly when the response carries the
\* completion flag or plain content with no tool call, and run then
\* returns the content of that response; a response with a tool call and
\* no completion flag does not end the run in DONE.
C27_DoneOnFlagOrContent ==
    [][ IsTurn
        => /\ loop'.pc = "DONE" <=> loop'.response \in {"done", "content"}
           /\ loop'.pc = "DONE" => loop'.output = loop'.content ]_vars

\* C20: at every turn the tools offered to the model are the discovery
\* tool followed by the schemas in active, in their order; a capability a
\* hydration returned in the turn before is among them.
C20_OfferedBaseThenActive ==
    [][ IsTurn
        => /\ Len(loop'.offered) = 1 + Len(active_tools)
           /\ loop'.offered[1] = create_discover_tool_schema
           /\ \A i \in 1..Len(active_tools) :
                 loop'.offered[i + 1] = active_tools[i].schema
           /\ \A n \in ReturnedNames(last) :
                 \E i \in 2..Len(loop'.offered) : loop'.offered[i].name = n
      ]_vars

\* The third turn of a run: the two tools the discovery of an earlier turn
\* hydrated were offered after discover_tools, and one was executed.
C20_Witness ==
    /\ loop.turn = 3
    /\ Len(loop.offered) = 3
    /\ loop.offered[1].name = DISCOVER_TOOLS
    /\ loop.offered[2].name = "t1"
    /\ loop.offered[3].name = "t2"
    /\ last.op = "execute"
    /\ loop.messages[2] = ToolMessage(DISCOVER_TOOLS, "discovered")

(***************************************************************************)
(* SpecWindow: runs of JITAgentLoop.run long enough for the history to     *)
(* outgrow the window the prompt is rebuilt from, on a provider whose      *)
(* registry is empty: discover_tools finds nothing and no tool is ever     *)
(* hydrated, so every tool call is fed back as a message.                  *)
(***************************************************************************)
\* The largest max_turns a long run is started with.
MaxWindowTurns == 6

InitWindow ==
    /\ uri_in = [form |-> "bare", segs |-> <<Str("echo")>>]
    /\ resolved = Pending
    /\ registry = <<>>
    /\ active_tools = <<>>
    /\ hydrated_uris = {}
    /\ last = NoCall
    /\ prior = NoCall
    /\ tasks = <<>>
    /\ loop = IdleLoop
    /\ Unused(search_service) /\ Unused(context_manager)
    /\ Unused(orchestrator) /\ Unused(collection)

\* await agent.run(user_input, max_turns), when no run is under way.
RunLong ==
    \E max_turns \in 0..MaxWindowTurns :
        /\ loop.pc # "AWAIT_MODEL"
        /\ loop' = StartRun(max_turns)
        /\ last' = NoCall
        /\ UNCHANGED <<uri_in, resolved, registry, active_tools,
                       hydrated_uris, prior, tasks,
                       search_service, context_manager, orchestrator,
                       collection>>

NextWindow ==
    \/ RunLong
    \/ ModelDone
    \/ ModelContent
    \/ ModelEmpty
    \/ ModelDiscover
    \/ ModelUnknown

SpecWindow == InitWindow /\ [][NextWindow]_vars

\* s is the last Len(s) elements of t, in their order.
IsSuffix(s, t) ==
    /\ Len(s) <= Len(t)
    /\ s = SubSeq(t, Len(t) - Len(s) + 1, Len(t))

\* C28: at every turn the prompt sent to the model holds, besides the user
\* input, at most the 5 most recent messages of the history, in their
\* order: all of them while the history has at most 5, none before the
\* first tool message, and never one older than the last 5.
C28_PromptWindow ==
    [][ IsTurn
        => /\ Len(loop.prompt) <= 5
           /\ IsSuffix(loop.prompt, loop.messages)
           /\ Len(loop.messages) > 1
                => Len(loop.prompt) = IF Len(loop.messages) <= 5
                                      THEN Len(loop.messages) ELSE 5
           /\ Len(loop.messages) = 1 => loop.prompt = <<>> ]_vars

\* The sixth turn of a run whose five turns before each fed a message
\* back: the history holds six messages and the prompt that was sent the
\* last five of them, without the oldest.
C28_Witness ==
    /\ loop.turn = 6
    /\ loop.response = "empty"
    /\ Len(loop.messages) = 6
    /\ Len(loop.prompt) = 5
    /\ loop.messages[1] = UserMessage
    /\ \A i \in 1..5 : loop.prompt[i] = loop.messages[i + 1]
    /\ loop.prompt[1] = ToolMessage(DISCOVER_TOOLS, "no_tools")
    /\ loop.prompt[2] = ToolMessage("t1", "unknown")
    /\ loop.prompt[5] = ToolMessage("t2", "unknown")

(***************************************************************************)
(* SpecSearch: SearchService on a registry that tools are added to.        *)
(***************************************************************************)
\* The keys of SearchService._providers.
Providers == {"semantic", "bm25"}

\* The modes callers ask for: the registered ones and two others.
Modes == Providers \cup {"hybrid", ""}

\* n_results: int = 5, the default of MCPRegistry.search_semantic.
DefaultResults == 5

\* SemanticSearchProvider.search
SemanticSearch(reg, n_results) == search_semantic(reg, n_results)

\* BM25SearchProvider.search: self.registry.search_semantic(query)
BM25Search(reg, n_results) == search_semantic(reg, DefaultResults)

\* Faulty variant: a mode without provider is an error.
ProviderStrict(mode) == IF mode \in Providers THEN mode ELSE "none"

\* self._providers.get(self.mode, self._providers["semantic"])
ProviderOf(mode) == IF mode \in Providers THEN mode ELSE "semantic"

\* SearchService.search: the candidate lists the provider of the mode may
\* return, the empty set when the call raises.
search(mode, reg, n_results) ==
    IF ProviderOf(mode) = "semantic" THEN SemanticSearch(reg, n_results)
    ELSE IF ProviderOf(mode) = "bm25" THEN BM25Search(reg, n_results)
    ELSE {}

\* Faulty variant: any mode is made current.
SetModeUnchecked(current, mode) == [mode |-> mode, error |-> "none"]

\* SearchService.set_mode
set_mode(current, mode) ==
    IF mode \in Providers
    THEN [mode |-> mode, error |-> "none"]
    ELSE [mode |-> current, error |-> "UnsupportedMode"]

\* The service and its last call: op, the mode or the n_results passed,
\* the error raised and the candidates returned.
Service(mode, op, arg, n_results, error, candidates) ==
    [mode |-> mode, op |-> op, arg |-> arg, n_results |-> n_results,
     error |-> error, candidates |-> candidates]

InitSearch ==
    /\ uri_in = [form |-> "bare", segs |-> <<Str("echo")>>]
    /\ resolved = Pending
    /\ registry = [n \in {} |-> <<>>]
    /\ active_tools = <<>>
    /\ hydrated_uris = {}
    /\ last = NoCall
    /\ prior = NoCall
    /\ tasks = <<>>
    /\ loop = <<>>
    /\ search_service = Service("semantic", "none", "", 0, "none", <<>>)
    /\ Unused(context_manager) /\ Unused(orchestrator) /\ Unused(collection)

\* service.set_mode(mode)
SetMode ==
    \E mode \in Modes :
        LET r == set_mode(search_service.mode, mode)
        IN  /\ search_service' =
                  Service(r.mode, "set_mode", mode, 0, r.error, <<>>)
            /\ UNCHANGED <<uri_in, resolved, registry, active_tools,
                           hydrated_uris, last, prior, tasks, loop,
                           context_manager, orchestrator, collection>>

\* service.mode = mode, or SearchService(registry, mode): no validation.
AssignMode ==
    \E mode \in Modes :
        /\ search_service' = Service(mode, "assign", mode, 0, "none", <<>>)
        /\ UNCHANGED <<uri_in, resolved, registry, active_tools,
                       hydrated_uris, last, prior, tasks, loop,
                       context_manager, orchestrator, collection>>

\* service.search(query, n_results=n_results)
Search ==
    \E n_results \in 1..MaxResults :
        LET found == search(search_service.mode, registry, n_results)
        IN  /\ IF found = {}
               THEN search_service' =
                      Service(search_service.mode, "search", "", n_results,
                              "NoProvider", <<>>)
               ELSE \E candidates \in found :
                      search_service' =
                        Service(search_service.mode, "search", "", n_results,
                                "none", candidates)
            /\ UNCHANGED <<uri_in, resolved, registry, active_tools,
                           hydrated_uris, last, prior, tasks, loop,
                           context_manager, orchestrator, collection>>

NextSearch ==
    \/ AddTool
    \/ SetMode
    \/ AssignMode
    \/ Search

SpecSearch == InitSearch /\ [][NextSearch]_vars

\* C21: set_mode with a mode that has no provider fails with
\* UnsupportedMode and leaves the current mode as it was; with a registered
\* mode it makes that mode current; a mode set through set_mode is a
\* registered one.
C21_SetModeValidated ==
    [][ search_service'.op = "set_mode"
        => /\ IF search_service'.arg \in Providers
              THEN /\ search_service'.error = "none"
                   /\ search_service'.mode = search_service'.arg
              ELSE /\ search_service'.error = "UnsupportedMode"
                   /\ search_service'.mode = search_service.mode
           /\ search_service'.error = "none"
                => search_service'.mode \in Providers ]_vars

\* set_mode("hybrid") was refused while bm25 was current, and bm25 stays.
C21_Witness ==
    /\ search_service.op = "set_mode"
    /\ search_service.arg = "hybrid"
    /\ search_service.error = "UnsupportedMode"
    /\ search_service.mode = "bm25"

\* min(n, size of the registry)
AtMost(n, reg) ==
    IF Cardinality(DOMAIN reg) < n THEN Cardinality(DOMAIN reg) ELSE n

\* C22: search does not fail because of the mode: with a mode that has no
\* provider it returns what the semantic provider returns for the query
\* and the limit, with a registered mode what that provider returns; the
\* semantic provider is registered.
C22_SearchFallsBack ==
    [][ (search_service'.op = "search" /\ search_service' # search_service)
        => /\ search_service'.error = "none"
           /\ "semantic" \in Providers
           /\ search_service'.mode = search_service.mode
           /\ Len(search_service'.candidates) =
                IF search_service.mode = "bm25"
                THEN AtMost(DefaultResults, registry)
                ELSE AtMost(search_service'.n_results, registry)
           /\ \A i \in 1..Len(search_service'.candidates) :
                 search_service'.candidates[i] =
                     Candidate(registry, search_service'.candidates[i].id)
      ]_vars

\* A search under the mode "hybrid", assigned without set_mode, returned
\* the one nearest tool of two, as the semantic provider does with limit 1.
C22_Witness ==
    /\ search_service.op = "search"
    /\ search_service.mode = "hybrid"
    /\ search_service.error = "none"
    /\ search_service.n_results = 1
    /\ Len(search_service.candidates) = 1
    /\ Cardinality(DOMAIN registry) = 2

\* C32: the limit that discover and discover_and_hydrate hand to
\* search_service.search(query, n_results=limit) reaches the ranking
\* strategy of the current mode, whichever it is: the search returns the
\* limit nearest tools, all of them when the registry holds fewer, and so
\* never more than limit candidates are previewed or hydrated.
C32_LimitForwarded ==
    [][ (search_service'.op = "search" /\ search_service' # search_service)
        => /\ Len(search_service'.candidates) <= search_service'.n_results
           /\ Len(search_service'.candidates) =
                AtMost(search_service'.n_results, registry) ]_vars

(***************************************************************************)
(* SpecRegistry: MCPRegistry on its chroma collection, a list of entries   *)
(* with an id and a metadata uri.                                          *)
(***************************************************************************)
\* The place of the first entry with that id, 0 when there is none.
RECURSIVE EntryOf(_, _, _)
EntryOf(entries, id, i) ==
    IF i > Len(entries) THEN 0
    ELSE IF entries[i].id = id THEN i
    ELSE EntryOf(entries, id, i + 1)

\* Faulty variant: collection.add, a new entry whatever the collection holds.
CollectionAdd(entries, id, uri) == Append(entries, [id |-> id, uri |-> uri])

\* collection.upsert(ids=[id], metadatas=[{uri}]): the entry with that id is
\* replaced where it stands, a new id is added at the end.
upsert(entries, id, uri) ==
    LET i == EntryOf(entries, id, 1)
    IN  IF i = 0 THEN Append(entries, [id |-> id, uri |-> uri])
        ELSE [entries EXCEPT ![i] = [id |-> id, uri |-> uri]]

\* collection.get(ids=[id])["metadatas"]: the entries with that id, in order.
RECURSIVE collection_get(_, _)
collection_get(entries, id) ==
    IF entries = <<>> THEN <<>>
    ELSE IF Head(entries).id = id
    THEN <<Head(entries)>> \o collection_get(Tail(entries), id)
    ELSE collection_get(Tail(entries), id)

\* MCPRegistry.add_tool on the collection.
MCPRegistry_add_tool(entries, name, uri) == upsert(entries, name, uri)

\* MCPRegistry.get_tool_uri on the collection: the uri of the first entry
\* found, None without one.
MCPRegistry_get_tool_uri(entries, tool_name) ==
    LET metadatas == collection_get(entries, tool_name)
    IN  IF metadatas # <<>>
        THEN [found |-> TRUE, uri |-> metadatas[1].uri]
        ELSE [found |-> FALSE, uri |-> <<>>]

\* The collection and the last call on the registry.  recent is the uri
\* each name was registered with the last time; replaced tells whether a
\* registration has changed the uri of a name.
Collection(entries, recent, replaced, op, name, result) ==
    [entries |-> entries, recent |-> recent, replaced |-> replaced,
     op |-> op, name |-> name, result |-> result]

NotLookedUp == [found |-> FALSE, uri |-> <<>>]

InitRegistry ==
    /\ uri_in = [form |-> "bare", segs |-> <<Str("echo")>>]
    /\ resolved = Pending
    /\ registry = <<>>
    /\ active_tools = <<>>
    /\ hydrated_uris = {}
    /\ last = <<>>
    /\ prior = <<>>
    /\ tasks = <<>>
    /\ loop = <<>>
    /\ Unused(search_service) /\ Unused(context_manager)
    /\ Unused(orchestrator)
    /\ collection = Collection(<<>>, [n \in {} |-> <<>>], FALSE, "none", "",
                               NotLookedUp)

\* registry.add_tool(ToolMetadata(name, uri))
RegistryAddTool ==
    \E name \in Names, uri \in Uris :
        /\ collection' =
             Collection(MCPRegistry_add_tool(collection.entries, name, uri),
                        [n \in DOMAIN collection.recent \cup {name} |->
                            IF n = name THEN uri ELSE collection.recent[n]],
                        \/ collection.replaced
                        \/ /\ name \in DOMAIN collection.recent
                           /\ collection.recent[name] # uri,
                        "add_tool", name, NotLookedUp)
        /\ UNCHANGED <<uri_in, resolved, registry, active_tools,
                       hydrated_uris, last, prior, tasks, loop,
                       search_service, context_manager, orchestrator>>

\* registry.get_tool_uri(tool_name)
RegistryGetToolUri ==
    \E tool_name \in Names \cup {UNKNOWN_TOOL} :
        /\ collection' =
             [collection EXCEPT
                !.op = "get_tool_uri", !.name = tool_name,
                !.result = MCPRegistry_get_tool_uri(collection.entries,
                                                    tool_name)]
        /\ UNCHANGED <<uri_in, resolved, registry, active_tools,
                       hydrated_uris, last, prior, tasks, loop,
                       search_service, context_manager, orchestrator>>

NextRegistry ==
    \/ RegistryAddTool
    \/ RegistryGetToolUri

SpecRegistry == InitRegistry /\ [][NextRegistry]_vars

\* C23: the collection holds at most one entry per name, and get_tool_uri
\* of a name returns the uri of the most recent registration of that name,
\* None for a name that was never registered.
C23_UpsertByName ==
    /\ \A i, j \in 1..Len(collection.entries) :
          collection.entries[i].id = collection.entries[j].id => i = j
    /\ collection.op = "get_tool_uri"
       => collection.result =
            IF collection.name \in DOMAIN collection.recent
            THEN [found |-> TRUE, uri |-> collection.recent[collection.name]]
            ELSE [found |-> FALSE, uri |-> <<>>]

\* t1 was registered before t2 and registered again with another uri: the
\* lookup of t1 returns the uri of the later registration.
C23_Witness ==
    /\ collection.op = "get_tool_uri"
    /\ collection.name = "t1"
    /\ collection.replaced
    /\ Len(collection.entries) = 2
    /\ collection.entries[1].id = "t1"
    /\ collection.entries[2].uri = URI_A
    /\ collection.result = [found |-> TRUE, uri |-> URI_B]

(***************************************************************************)
(* SpecContext: DynamicContextManager.                                     *)
(***************************************************************************)
\* The registry the candidates handed to the manager come from.
ContextRegistry == [n \in Names |-> IF n = "t1" THEN URI_A ELSE URI_B]

\* The candidate lists set_candidates is called with.
CandidateLists ==
    {<<>>} \cup UNION { search_semantic(ContextRegistry, n)
                          : n \in 1..MaxResults }

\* The schema lists hydrate_tools is called with.
SchemaLists ==
    { <<>>,
      get_tool_schemas(_map_uri_to_params(URI_A)),
      get_tool_schemas(_map_uri_to_params(URI_B)),
      get_tool_schemas(_map_uri_to_params(URI_B))
          \o get_tool_schemas(_map_uri_to_params(URI_A)) }

\* The manager, and the last call on it: before is active_tools as the
\* call found it, hydrated whether hydrate_tools was ever called, returned
\* what a getter returned.
\* DynamicContextManager.__init__
NewContextManager ==
    [active_tools |-> <<>>, candidate_tools |-> <<>>, op |-> "none",
     before |-> <<>>, hydrated |-> FALSE, returned |-> <<>>]

\* DynamicContextManager.set_candidates
set_candidates(cm, tools) == [cm EXCEPT !.candidate_tools = tools]

\* Faulty variant: the schemas are added to the active ones.
HydrateToolsExtend(cm, tool_names, full_schemas) ==
    [cm EXCEPT !.active_tools = @ \o full_schemas]

\* DynamicContextManager.hydrate_tools: tool_names is not used.
hydrate_tools(cm, tool_names, full_schemas) ==
    [cm EXCEPT !.active_tools = full_schemas]

\* The prompt extensions:
\*   "categories"  "Available tool categories: ... Request tools if needed."
\*   "candidates"  "I found these potential tools: <ids>. Shall I load them?"
\*   "empty"       ""
PromptExtension(kind, ids) == [kind |-> kind, ids |-> ids]

\* DynamicContextManager.get_system_prompt_extension
get_system_prompt_extension(cm) ==
    IF cm.candidate_tools = <<>> /\ cm.active_tools = <<>>
    THEN PromptExtension("categories", <<>>)
    ELSE IF cm.candidate_tools # <<>> /\ cm.active_tools = <<>>
    THEN PromptExtension("candidates",
             [i \in 1..Len(cm.candidate_tools) |-> cm.candidate_tools[i].id])
    ELSE PromptExtension("empty", <<>>)

\* DynamicContextManager.get_tool_definitions
get_tool_definitions(cm) == cm.active_tools

\* One call on the manager, recorded.
Called(cm, op, returned) ==
    [cm EXCEPT !.op = op, !.returned = returned]

InitContext ==
    /\ uri_in = [form |-> "bare", segs |-> <<Str("echo")>>]
    /\ resolved = Pending
    /\ registry = <<>>
    /\ active_tools = <<>>
    /\ hydrated_uris = {}
    /\ last = <<>>
    /\ prior = <<>>
    /\ tasks = <<>>
    /\ loop = <<>>
    /\ Unused(search_service) /\ Unused(orchestrator) /\ Unused(collection)
    /\ context_manager = NewContextManager

\* cm.set_candidates(tools)
SetCandidates ==
    \E tools \in CandidateLists :
        /\ context_manager' =
             [Called(set_candidates(context_manager, tools),
                     "set_candidates", <<>>)
              EXCEPT !.before = context_manager.active_tools]
        /\ UNCHANGED <<uri_in, resolved, registry, active_tools,
                       hydrated_uris, last, prior, tasks, loop,
                       search_service, orchestrator, collection>>

\* cm.hydrate_tools(tool_names, full_schemas)
HydrateTools ==
    \E full_schemas \in SchemaLists :
        LET tool_names == [i \in 1..Len(context_manager.candidate_tools) |->
                              context_manager.candidate_tools[i].id]
        IN  /\ context_manager' =
                 [Called(hydrate_tools(context_manager, tool_names,
                                       full_schemas),
                         "hydrate_tools", full_schemas)
                  EXCEPT !.before = context_manager.active_tools,
                         !.hydrated = TRUE]
            /\ UNCHANGED <<uri_in, resolved, registry, active_tools,
                           hydrated_uris, last, prior, tasks, loop,
                           search_service, orchestrator, collection>>

\* cm.get_system_prompt_extension()
GetSystemPromptExtension ==
    /\ context_manager' =
         Called(context_manager, "get_system_prompt_extension",
                <<get_system_prompt_extension(context_manager)>>)
    /\ UNCHANGED <<uri_in, resolved, registry, active_tools, hydrated_uris,
                   last, prior, tasks, loop, search_service, orchestrator,
                   collection>>

\* cm.get_tool_definitions()
GetToolDefinitions ==
    /\ context_manager' =
         Called(context_manager, "get_tool_definitions",
                get_tool_definitions(context_manager))
    /\ UNCHANGED <<uri_in, resolved, registry, active_tools, hydrated_uris,
                   last, prior, tasks, loop, search_service, orchestrator,
                   collection>>

NextContext ==
    \/ SetCandidates
    \/ HydrateTools
    \/ GetSystemPromptExtension
    \/ GetToolDefinitions

SpecContext == InitContext /\ [][NextContext]_vars

\* The ids of a candidate list.
IdsOf(tools) == [i \in 1..Len(tools) |-> tools[i].id]

\* C24: after set_candidates with a non-empty list and before any
\* hydration the prompt extension names every candidate id; after
\* hydrate_tools(names, schemas) get_tool_definitions returns exactly
\* schemas, whatever was active before, and with schemas non-empty the
\* prompt extension does not offer candidates.
C24_ContextManager ==
    /\ (/\ context_manager.op = "set_candidates"
        /\ context_manager.candidate_tools # <<>>
        /\ ~context_manager.hydrated)
       => get_system_prompt_extension(context_manager) =
            PromptExtension("candidates",
                            IdsOf(context_manager.candidate_tools))
    /\ context_manager.op = "hydrate_tools"
       => /\ get_tool_definitions(context_manager) = context_manager.returned
          /\ context_manager.returned # <<>>
             => get_system_prompt_extension(context_manager).kind
                  # "candidates"
    /\ context_manager.op = "get_system_prompt_extension"
       => /\ (context_manager.candidate_tools # <<>> /\ ~context_manager.hydrated)
             => context_manager.returned =
                  <<PromptExtension("candidates",
                                    IdsOf(context_manager.candidate_tools))>>
          /\ context_manager.active_tools # <<>>
             => context_manager.returned[1].kind # "candidates"

\* hydrate_tools with the schemas of srv2 on a manager that held the two
\* schemas of srv1 and two candidates: one definition is left.
C24_Witness ==
    /\ context_manager.op = "hydrate_tools"
    /\ Len(context_manager.before) = 2
    /\ Len(context_manager.candidate_tools) = 2
    /\ Len(get_tool_definitions(context_manager)) = 1
    /\ get_tool_definitions(context_manager)[1].description = "srv2"

(***************************************************************************)
(* SpecOrch: JITOrchestrator.query on a registry that tools are added to.  *)
(* A step is one whole query: the model's intent, the search, the          *)
(* hydration of every candidate, the model's tool calls and their          *)
(* execution.  The model and the transport answer anything.                *)
(***************************************************************************)
\* The most tool calls the model emits in one query.
MaxCalls == 2

\* JITOrchestrator._map_uri_to_params: the same descriptor for every uri.
JITOrchestrator_map_uri_to_params(uri) ==
    StdioServerParameters(Str("echo"), <<Str("mock-server")>>)

\* JITOrchestrator._find_server_for_tool: the descriptor of "mcp://default"
\* for every name, never None.
_find_server_for_tool(tool_name, candidates) ==
    JITOrchestrator_map_uri_to_params(MCP_PREFIX \o Str("default"))

\* What the server answers to get_tool_schemas: it raises, or it lists its
\* tools.
FetchAnswers ==
    { [ok |-> FALSE, schemas |-> <<>>],
      [ok |-> TRUE, schemas |-> <<Schema("t1", "mock-server")>>],
      [ok |-> TRUE, schemas |-> <<Schema("t1", "mock-server"),
                                  Schema("t2", "mock-server")>>] }

\* What the server answers to execute_tool: "fail" when it raises.
ExecuteAnswers == {"fail", "r1"}

\* The lists get_tool_calls may return: the model names any tool.
ToolCall(name, args) == [name |-> name, args |-> args]

ToolCallLists ==
    UNION { [1..n -> { ToolCall(name, "a1")
                         : name \in Names \cup {UNKNOWN_TOOL} }]
              : n \in 0..MaxCalls }

\* The hydration loop of query from candidate i on: every candidate is
\* fetched from the descriptor its uri maps to; a fetch that raises is
\* logged and adds nothing.
RECURSIVE FetchAll(_, _, _)
FetchAll(candidates, answers, i) ==
    IF i > Len(candidates) THEN [full_schemas |-> <<>>, calls |-> <<>>]
    ELSE LET uri == candidates[i].uri
             server_params == JITOrchestrator_map_uri_to_params(uri)
             call == TransportCall("get_tool_schemas", server_params, uri,
                                   FALSE, answers[i].ok)
             rest == FetchAll(candidates, answers, i + 1)
         IN  [full_schemas |->
                 (IF answers[i].ok THEN answers[i].schemas ELSE <<>>)
                     \o rest.full_schemas,
              calls |-> <<call>> \o rest.calls]

\* The execution loop of query from call i on: the descriptor found for
\* the name is never None, so every call is sent to the transport; an
\* execute_tool that raises leaves query.
RECURSIVE ExecuteAll(_, _, _, _)
ExecuteAll(tool_calls, candidates, answers, i) ==
    IF i > Len(tool_calls)
    THEN [calls |-> <<>>, results |-> <<>>, raised |-> FALSE]
    ELSE LET server_params ==
                 _find_server_for_tool(tool_calls[i].name, candidates)
             call == ExecuteToolCall(server_params, tool_calls[i].name,
                                     tool_calls[i].args, answers[i])
             rest == ExecuteAll(tool_calls, candidates, answers, i + 1)
         IN  IF answers[i] = "fail"
             THEN [calls |-> <<call>>, results |-> <<>>, raised |-> TRUE]
             ELSE [calls |-> <<call>> \o rest.calls,
                   results |-> <<answers[i]>> \o rest.results,
                   raised |-> rest.raised]

\* The record of one query:
\*   output  "no_tools_needed"  "No tools needed. [Direct Answer ...]"
\*           "not_found"        "I need tools for ... but couldn't find any"
\*           "no_calls"         "... model didn't generate any calls."
\*           "executed"         "Executed N tools. Results: ..."
\*           "raised"           an exception left query
\*   calls   the transport calls it issued, in order
Queried(output, candidates, full_schemas, tool_calls, calls, results) ==
    [output |-> output, candidates |-> candidates,
     full_schemas |-> full_schemas, tool_calls |-> tool_calls,
     calls |-> calls, results |-> results]

\* JITOrchestrator.query: the record of the query and the context manager
\* it leaves.
query(cm, needs_tools, candidates, fetched, tool_calls, executed) ==
    LET f  == FetchAll(candidates, fetched, 1)
        x  == ExecuteAll(tool_calls, candidates, executed, 1)
        found == set_candidates(cm, candidates)
        hydrated == hydrate_tools(found, IdsOf(candidates), f.full_schemas)
    IN  IF ~needs_tools
        THEN [context_manager |-> cm,
              orchestrator |-> Queried("no_tools_needed", <<>>, <<>>, <<>>,
                                       <<>>, <<>>)]
        ELSE IF candidates = <<>>
        THEN [context_manager |-> found,
              orchestrator |-> Queried("not_found", candidates, <<>>, <<>>,
                                       <<>>, <<>>)]
        ELSE IF tool_calls = <<>>
        THEN [context_manager |-> hydrated,
              orchestrator |-> Queried("no_calls", candidates,
                                       f.full_schemas, tool_calls, f.calls,
                                       <<>>)]
        ELSE [context_manager |-> hydrated,
              orchestrator |-> Queried(IF x.raised THEN "raised"
                                       ELSE "executed",
                                       candidates, f.full_schemas,
                                       tool_calls, f.calls \o x.calls,
                                       x.results)]

InitOrch ==
    /\ uri_in = [form |-> "bare", segs |-> <<Str("echo")>>]
    /\ resolved = Pending
    /\ registry = <<>>
    /\ active_tools = <<>>
    /\ hydrated_uris = {}
    /\ last = <<>>
    /\ prior = <<>>
    /\ tasks = <<>>
    /\ loop = <<>>
    /\ Unused(search_service) /\ Unused(collection)
    /\ context_manager = NewContextManager
    /\ orchestrator = Queried("none", <<>>, <<>>, <<>>, <<>>, <<>>)

\* await orchestrator.add_tool_to_registry(ToolMetadata(name, uri)), each
\* tool with the uri of its own server.
AddToolToRegistry ==
    \E name \in Names :
        /\ registry' = add_tool(registry, name, ContextRegistry[name])
        /\ UNCHANGED <<uri_in, resolved, active_tools, hydrated_uris, last,
                       prior, tasks, loop, search_service, context_manager,
                       orchestrator, collection>>

\* await orchestrator.query(user_text)
Query ==
    \E needs_tools \in BOOLEAN :
      \E tool_calls \in IF needs_tools THEN ToolCallLists ELSE {<<>>} :
        \E candidates \in IF needs_tools
                          THEN search("semantic", registry, DefaultResults)
                          ELSE {<<>>} :
          \E fetched \in [1..Len(candidates) -> FetchAnswers],
             executed \in [1..Len(tool_calls) -> ExecuteAnswers] :
              LET q == query(context_manager, needs_tools, candidates,
                             fetched, tool_calls, executed)
              IN  /\ context_manager' = q.context_manager
                  /\ orchestrator' = q.orchestrator
                  /\ UNCHANGED <<uri_in, resolved, registry, active_tools,
                                 hydrated_uris, last, prior, tasks, loop,
                                 search_service, collection>>

NextOrch ==
    \/ AddToolToRegistry
    \/ Query

SpecOrch == InitOrch /\ [][NextOrch]_vars

\* The names of the schemas the hydration step of the query fetched.
HydratedNames ==
    { orchestrator.full_schemas[j].name
        : j \in 1..Len(orchestrator.full_schemas) }

\* C29: in query a tool call of the model is sent to the transport only if
\* its name is the name of a schema fetched in the hydration step of that
\* query; a call naming a tool that was not hydrated is never executed.
C29_ExecutionGated ==
    \A i \in 1..Len(orchestrator.calls) :
        orchestrator.calls[i].kind = "execute_tool"
        => orchestrator.calls[i].tool \in HydratedNames

====
